---- MODULE Spec2Model ----
(***************************************************************************)
(* A model of src/src/tui.py, the Textual dashboard CozoMemoryTUI.         *)
(*                                                                         *)
(* The state of the program is its widget tree: the title (#welcome-text), *)
(* the children of #result-container (a menu, a form with its Inputs, a    *)
(* result, ...) and whether the application is still running.  Every       *)
(* handler of the class is one action; a handler that runs the backend     *)
(* blocks in subprocess.run, so the whole handler (build the arguments,    *)
(* run, normalise, render) is one atomic step, and the outcome of the      *)
(* backend process is drawn from the set Outcomes.                         *)
(*                                                                         *)
(* Text.  A text is a sequence of chunks (strings).  A string literal of   *)
(* the source is one chunk, or a few when it is a message that names       *)
(* fields (it is cut around the names); text that comes from outside the   *)
(* program (a field value, stdout, stderr) and text the program cuts by    *)
(* character count (json.dumps output) has one chunk per character.  The   *)
(* empty text is << >>.  Titles and labels are written without the emoji   *)
(* they start with in the source.                                          *)
(***************************************************************************)
EXTENDS Integers, Sequences, FiniteSets, TLC

\* ------------------------------------------------------------------ bounds

\* Longest value typed into an Input.
MaxFieldLen == 2
\* By how many characters the long stdout sample exceeds the quote limit.
LongExcess == 1
\* How far below and above the truncation limit the rendered payloads reach.
RenderMargin == 60

\* ------------------------------------------------------- program constants

\* result.stdout[:200]
OutputQuoteLimit == 200
\* len(formatted) > 5000, formatted[:5000]
TruncateLimit == 5000
\* sys.getrecursionlimit() of the interpreter that runs json.loads
RecursionLimit == 1000

\* --------------------------------------------------------------- sequences

Min(S) == CHOOSE x \in S : \A y \in S : x <= y

\* s[:n] of Python
Take(s, n) == SubSeq(s, 1, IF Len(s) < n THEN Len(s) ELSE n)

\* s[i..] (1-based), empty when i > Len(s)
Drop(s, i) == SubSeq(s, i, Len(s))

\* All sequences over S of length at most n.
SeqUpTo(S, n) == UNION {[1..k -> S] : k \in 0..n}

\* str.startswith
StartsWith(s, p) == Len(p) <= Len(s) /\ SubSeq(s, 1, Len(p)) = p

\* chunk repeated n times
Repeat(c, n) == [i \in 1..n |-> c]

\* str(n) of a natural number, one chunk per digit
RECURSIVE Digits(_)
Digits(n) ==
    LET d == <<"0", "1", "2", "3", "4", "5", "6", "7", "8", "9">>[(n % 10) + 1]
    IN  IF n < 10 THEN <<d>> ELSE Digits(n \div 10) \o <<d>>

\* ------------------------------------------------------------- JSON values

(***************************************************************************)
(* A JSON value (what json.loads returns and json.dumps takes) is a record *)
(* of one shape whatever its type, so that any two values can be compared: *)
(* t is the type, n the number (or 0/1 for false/true), s the characters   *)
(* of a string, keys/items the members of an object in insertion order     *)
(* (items alone for an array).                                             *)
(***************************************************************************)
JNull == [t |-> "null", n |-> 0, s |-> << >>, keys |-> << >>, items |-> << >>]
JBool(b) == [t |-> "bool", n |-> IF b THEN 1 ELSE 0, s |-> << >>, keys |-> << >>, items |-> << >>]
JNum(k) == [t |-> "num", n |-> k, s |-> << >>, keys |-> << >>, items |-> << >>]
JStr(x) == [t |-> "str", n |-> 0, s |-> x, keys |-> << >>, items |-> << >>]
JArr(xs) == [t |-> "arr", n |-> 0, s |-> << >>, keys |-> << >>, items |-> xs]
JObj(ks, xs) == [t |-> "obj", n |-> 0, s |-> << >>, keys |-> ks, items |-> xs]

\* d[k] = v of a Python dict: a new key is appended, an old one keeps its place.
DictPut(d, k, v) ==
    IF \E i \in 1..Len(d.keys) : d.keys[i] = k
    THEN LET i == CHOOSE i \in 1..Len(d.keys) : d.keys[i] = k
         IN  JObj(d.keys, [d.items EXCEPT ![i] = v])
    ELSE JObj(Append(d.keys, k), Append(d.items, v))

\* isinstance(v, dict) and d.get(k, default)
DictGet(d, k, default) ==
    IF \E i \in 1..Len(d.keys) : d.keys[i] = k
    THEN d.items[CHOOSE i \in 1..Len(d.keys) : d.keys[i] = k]
    ELSE default

\* -------------------------------------------------------------- json.loads

(***************************************************************************)
(* json.loads of CPython on the documents the model draws: whitespace,     *)
(* null/true/false, non-negative integers, strings without backslash,      *)
(* arrays and objects.  Positions i are 1-based; the positions of an error *)
(* are Python's 0-based ones.                                              *)
(***************************************************************************)
Whitespace == {" ", "\n"}
ControlChars == {"\n"}
DigitChars == {"0", "1", "2", "3", "4", "5", "6", "7", "8", "9"}
DigitValue(c) == CHOOSE k \in 0..9 : Digits(k) = <<c>>

POk(v, e) == [ok |-> TRUE, val |-> v, end |-> e, msg |-> "", pos |-> 0, exc |-> ""]
PErr(m, p) ==
    [ok |-> FALSE, val |-> JNull, end |-> 0, msg |-> m, pos |-> p, exc |-> "JSONDecodeError"]

\* The first position from i on that holds no whitespace (Len(s)+1 at the end).
SkipWs(s, i) == Min({j \in i..(Len(s) + 1) : j = Len(s) + 1 \/ s[j] \notin Whitespace})

\* scanstring: i is the position after the opening quote.
ScanString(s, i) ==
    LET stops == {j \in i..Len(s) : s[j] = "\"" \/ s[j] \in ControlChars}
        j == Min(stops)
    IN  IF stops = {} THEN PErr("Unterminated string starting at", i - 2)
        ELSE IF s[j] = "\"" THEN POk(JStr(SubSeq(s, i, j - 1)), j + 1)
        ELSE PErr("Invalid control character at", j - 1)

RECURSIVE ToInt(_)
ToInt(ds) ==
    IF ds = << >> THEN 0
    ELSE 10 * ToInt(SubSeq(ds, 1, Len(ds) - 1)) + DigitValue(ds[Len(ds)])

\* The integer that starts at i (s[i] is a digit): "0", or a run of digits.
ScanNumber(s, i) ==
    LET e == IF s[i] = "0" THEN i + 1
             ELSE Min({j \in i..(Len(s) + 1) : j = Len(s) + 1 \/ s[j] \notin DigitChars})
    IN  POk(JNum(ToInt(SubSeq(s, i, e - 1))), e)

(***************************************************************************)
(* The scanner, one definition per step of CPython's: a step hands what it *)
(* read to the next step as a parameter.                                   *)
(***************************************************************************)
RECURSIVE ParseValue(_, _), ArrayItems(_, _, _), ArrayNext(_, _, _), ArrayAfter(_, _, _),
          ObjectItems(_, _, _), ObjectKey(_, _, _), ObjectColon(_, _, _, _),
          ObjectValue(_, _, _, _), ObjectAfter(_, _, _)

\* An array or an object whose opening bracket is before j (whitespace skipped).
ParseArray(s, j) ==
    IF j <= Len(s) /\ s[j] = "]" THEN POk(JArr(<< >>), j + 1) ELSE ArrayItems(s, j, << >>)

ParseObject(s, j) ==
    IF j <= Len(s) /\ s[j] = "}" THEN POk(JObj(<< >>, << >>), j + 1)
    ELSE ObjectItems(s, j, JObj(<< >>, << >>))

\* scan_once: the value that starts exactly at i.
ParseValue(s, i) ==
    IF i > Len(s) THEN PErr("Expecting value", i - 1)
    ELSE IF s[i] = "\"" THEN ScanString(s, i + 1)
    ELSE IF s[i] = "{" THEN ParseObject(s, SkipWs(s, i + 1))
    ELSE IF s[i] = "[" THEN ParseArray(s, SkipWs(s, i + 1))
    ELSE IF Take(Drop(s, i), 4) = <<"n", "u", "l", "l">> THEN POk(JNull, i + 4)
    ELSE IF Take(Drop(s, i), 4) = <<"t", "r", "u", "e">> THEN POk(JBool(TRUE), i + 4)
    ELSE IF Take(Drop(s, i), 5) = <<"f", "a", "l", "s", "e">> THEN POk(JBool(FALSE), i + 5)
    ELSE IF s[i] \in DigitChars THEN ScanNumber(s, i)
    ELSE PErr("Expecting value", i - 1)

\* The items of an array from i on, acc being the ones read so far.
ArrayItems(s, i, acc) == ArrayNext(s, acc, ParseValue(s, i))

\* r is the item just read.
ArrayNext(s, acc, r) ==
    IF ~r.ok THEN r ELSE ArrayAfter(s, Append(acc, r.val), SkipWs(s, r.end))

\* j is the position after the item and the whitespace behind it.
ArrayAfter(s, acc, j) ==
    IF j <= Len(s) /\ s[j] = "]" THEN POk(JArr(acc), j + 1)
    ELSE IF j > Len(s) \/ s[j] # "," THEN PErr("Expecting ',' delimiter", j - 1)
    ELSE ArrayItems(s, SkipWs(s, j + 1), acc)

\* The members of an object from i on, acc being the object read so far.
ObjectItems(s, i, acc) ==
    IF i > Len(s) \/ s[i] # "\""
    THEN PErr("Expecting property name enclosed in double quotes", i - 1)
    ELSE ObjectKey(s, acc, ScanString(s, i + 1))

\* k is the key just read.
ObjectKey(s, acc, k) ==
    IF ~k.ok THEN k ELSE ObjectColon(s, acc, k.val.s, SkipWs(s, k.end))

\* j is the position after the key and the whitespace behind it.
ObjectColon(s, acc, key, j) ==
    IF j > Len(s) \/ s[j] # ":" THEN PErr("Expecting ':' delimiter", j - 1)
    ELSE ObjectValue(s, acc, key, ParseValue(s, SkipWs(s, j + 1)))

\* v is the value just read.
ObjectValue(s, acc, key, v) ==
    IF ~v.ok THEN v ELSE ObjectAfter(s, DictPut(acc, key, v.val), SkipWs(s, v.end))

\* m is the position after the value and the whitespace behind it.
ObjectAfter(s, obj, m) ==
    IF m <= Len(s) /\ s[m] = "}" THEN POk(obj, m + 1)
    ELSE IF m > Len(s) \/ s[m] # "," THEN PErr("Expecting ',' delimiter", m - 1)
    ELSE ObjectItems(s, SkipWs(s, m + 1), obj)

\* r is the value read; nothing but whitespace may follow it.
Loaded(s, r) ==
    IF ~r.ok THEN r
    ELSE IF SkipWs(s, r.end) # Len(s) + 1 THEN PErr("Extra data", SkipWs(s, r.end) - 1)
    ELSE r

\* The number of "[" the document opens with: the scanner calls itself once
\* for each of them before it reads anything else.
LeadingBrackets(s) == Min({i \in 1..Len(s) : s[i] # "["} \cup {Len(s) + 1}) - 1

\* The scanner ran out of stack: a RecursionError, which is no JSONDecodeError.
RecursionError ==
    [ok |-> FALSE, val |-> JNull, end |-> 0, pos |-> 0, exc |-> "RecursionError",
     msg |-> "maximum recursion depth exceeded while decoding a JSON array from a unicode string"]

(***************************************************************************)
(* json.loads(s): one value, whitespace around it, nothing after it.  The  *)
(* scanner is recursive, and the interpreter stops a recursion as deep as  *)
(* sys.getrecursionlimit(): a document that opens that many arrays raises  *)
(* RecursionError, whatever follows.                                       *)
(***************************************************************************)
json_loads(s) ==
    IF LeadingBrackets(s) >= RecursionLimit THEN RecursionError
    ELSE Loaded(s, ParseValue(s, SkipWs(s, 1)))

\* str(e) of a json.JSONDecodeError: "<msg>: line L column C (char P)".
JSONDecodeErrorStr(s, r) ==
    LET newlines == {j \in 1..r.pos : s[j] = "\n"}
        lineno == Cardinality(newlines) + 1
        colno == IF newlines = {} THEN r.pos + 1
                 ELSE r.pos - ((CHOOSE j \in newlines : \A k \in newlines : k <= j) - 1)
    IN  <<r.msg, ": line ">> \o Digits(lineno) \o <<" column ">> \o Digits(colno)
            \o <<" (char ">> \o Digits(r.pos) \o <<")">>

\* -------------------------------------------------------------- json.dumps

\* The escape of one character inside a JSON string (ensure_ascii).
EscapeChar(c) ==
    IF c = "\"" THEN <<"\\", "\"">>
    ELSE IF c = "\\" THEN <<"\\", "\\">>
    ELSE IF c = "\n" THEN <<"\\", "n">>
    ELSE <<c>>

\* The escapes of the characters of x, in order (by halves).
RECURSIVE Escape(_)
Escape(x) ==
    IF x = << >> THEN << >>
    ELSE IF Len(x) = 1 THEN EscapeChar(x[1])
    ELSE LET h == Len(x) \div 2
         IN  Escape(SubSeq(x, 1, h)) \o Escape(SubSeq(x, h + 1, Len(x)))

\* '"' + escaped + '"'
Quoted(x) == <<"\"">> \o Escape(x) \o <<"\"">>

RECURSIVE json_dumps(_, _), DumpMembers(_, _, _)

\* json.dumps(v, indent=2) at nesting depth level, one chunk per character.
json_dumps(v, level) ==
    IF v.t = "null" THEN <<"n", "u", "l", "l">>
    ELSE IF v.t = "bool" THEN
        (IF v.n = 1 THEN <<"t", "r", "u", "e">> ELSE <<"f", "a", "l", "s", "e">>)
    ELSE IF v.t = "num" THEN Digits(v.n)
    ELSE IF v.t = "str" THEN Quoted(v.s)
    ELSE IF v.items = << >> THEN (IF v.t = "arr" THEN <<"[", "]">> ELSE <<"{", "}">>)
    ELSE <<(IF v.t = "arr" THEN "[" ELSE "{")>>
            \o DumpMembers(v, Len(v.items), level + 1)
            \o <<"\n">> \o Repeat(" ", 2 * level)
            \o <<(IF v.t = "arr" THEN "]" ELSE "}")>>

\* The first k members of v, each on a line of its own, separated by ",".
DumpMembers(v, k, level) ==
    IF k = 0 THEN << >>
    ELSE DumpMembers(v, k - 1, level)
            \o (IF k > 1 THEN <<",">> ELSE << >>)
            \o <<"\n">> \o Repeat(" ", 2 * level)
            \o (IF v.t = "obj" THEN Quoted(v.keys[k]) \o <<":", " ">> ELSE << >>)
            \o json_dumps(v.items[k], level)

\* --------------------------------------------------- the backend's outcomes

\* Characters typed into an Input, and the values an Input can hold.
FieldChars == {"a"}
FieldValues == SeqUpTo(FieldChars, MaxFieldLen)

\* What the backend process writes to stdout: nothing, two JSON documents (the
\* second with whitespace around it), two texts that are no JSON (the second
\* longer than the quote limit), and arrays nested to the recursion limit.
SampleEntities == <<"{", "\"", "e", "n", "t", "i", "t", "i", "e", "s", "\"", ":", " ", "3", "}">>
SampleNotJson == <<"n", "o", "t", " ", "j", "s", "o", "n">>
SampleList == <<" ", "[", "1", ",", "\n", "\"", "a", "\"", "]", "\n">>
SampleLong == Repeat("x", OutputQuoteLimit + LongExcess)
SampleDeep == Repeat("[", RecursionLimit)
Stdouts == {<< >>, SampleEntities, SampleList, SampleNotJson, SampleLong, SampleDeep}
\* What a process that failed or was stopped may have written before.
PartialStdouts == {<< >>, SampleEntities}
Stderrs == {<< >>, <<"b", "o", "o", "m">>}
ReturnCodes == {0, 1}
ExcMessages == {<<"[Errno 2] No such file or directory: 'node'">>}

(***************************************************************************)
(* What subprocess.run(cmd, capture_output=True, text=True, timeout=30)    *)
(* can do: return a CompletedProcess ("completed"), raise TimeoutExpired   *)
(* ("timed-out", the output captured so far is on the exception), or raise *)
(* another exception ("raised": the process could not be started).         *)
(***************************************************************************)
Outcomes ==
    [cond : {"completed"}, returncode : {0}, stdout : Stdouts, stderr : Stderrs, exc : {<< >>}]
    \cup [cond : {"completed"}, returncode : ReturnCodes \ {0}, stdout : PartialStdouts,
          stderr : Stderrs, exc : {<< >>}]
    \cup [cond : {"timed-out"}, returncode : {0}, stdout : PartialStdouts, stderr : Stderrs,
          exc : {<< >>}]
    \cup [cond : {"raised"}, returncode : {0}, stdout : {<< >>}, stderr : {<< >>}, exc : ExcMessages]

\* ------------------------------------------------------- the result dicts

(***************************************************************************)
(* The dict that _run_cli_command returns and _update_result takes: keys   *)
(* is the set of keys present, the other fields their values.              *)
(***************************************************************************)
ErrorDict(m) == [keys |-> {"error"}, error |-> m, success |-> FALSE, data |-> JNull]
SuccessDict(d) == [keys |-> {"success", "data"}, error |-> << >>, success |-> TRUE, data |-> d]

KeyOutput == <<"o", "u", "t", "p", "u", "t">>
KeyMessage == <<"m", "e", "s", "s", "a", "g", "e">>

\* Cmd with "-f", "json" ahead of the arguments.
Cmd_ahead(args, use_json_format) ==
    (IF use_json_format THEN <<<<"-f">>, <<"json">>>> ELSE << >>) \o args

\* cmd = ["node", self.cli_path] + list(args) (+ ["-f", "json"]), without the
\* executable prefix, which is the same for every command.
Cmd(args, use_json_format) ==
    args \o (IF use_json_format THEN <<<<"-f">>, <<"json">>>> ELSE << >>)

\* The result for exit status 0 and use_json_format: parsed is what
\* json.loads(result.stdout) gave.  The inner try catches JSONDecodeError
\* alone; any other exception reaches "except Exception" and gives str(e).
JsonResult(stdout, parsed) ==
    IF parsed.ok THEN SuccessDict(parsed.val)
    ELSE IF parsed.exc # "JSONDecodeError" THEN ErrorDict(<<parsed.msg>>)
    ELSE ErrorDict(<<"Failed to parse JSON:", " ">>
                   \o JSONDecodeErrorStr(stdout, parsed)
                   \o <<"\nOutput: ">>
                   \o Take(stdout, OutputQuoteLimit))

\* _run_cli_command that reads what a process wrote before it was stopped.
_run_cli_command_partial(args, use_json_format, outcome) ==
    IF outcome.cond = "raised" THEN ErrorDict(outcome.exc)
    ELSE IF outcome.cond = "timed-out" /\ outcome.stdout = << >>
    THEN ErrorDict(<<"Command timed out">>)
    ELSE IF outcome.cond = "completed" /\ outcome.returncode # 0
    THEN ErrorDict(IF outcome.stderr # << >> THEN outcome.stderr ELSE <<"Command failed">>)
    ELSE IF use_json_format
    THEN JsonResult(outcome.stdout, json_loads(outcome.stdout))
    ELSE SuccessDict(JObj(<<KeyOutput>>, <<JStr(outcome.stdout)>>))

\* _run_cli_command that looks at the exit status only when stdout is no JSON.
_run_cli_command_parse_first(args, use_json_format, outcome) ==
    IF outcome.cond = "timed-out" THEN ErrorDict(<<"Command timed out">>)
    ELSE IF outcome.cond = "raised" THEN ErrorDict(outcome.exc)
    ELSE IF outcome.returncode # 0 /\ ~(use_json_format /\ json_loads(outcome.stdout).ok)
    THEN ErrorDict(IF outcome.stderr # << >> THEN outcome.stderr ELSE <<"Command failed">>)
    ELSE IF use_json_format
    THEN JsonResult(outcome.stdout, json_loads(outcome.stdout))
    ELSE SuccessDict(JObj(<<KeyOutput>>, <<JStr(outcome.stdout)>>))

\* _run_cli_command that parses stdout whatever use_json_format is.
_run_cli_command_json(args, use_json_format, outcome) ==
    IF outcome.cond = "timed-out" THEN ErrorDict(<<"Command timed out">>)
    ELSE IF outcome.cond = "raised" THEN ErrorDict(outcome.exc)
    ELSE IF outcome.returncode # 0
    THEN ErrorDict(IF outcome.stderr # << >> THEN outcome.stderr ELSE <<"Command failed">>)
    ELSE JsonResult(outcome.stdout, json_loads(outcome.stdout))

\* _run_cli_command's return value when subprocess.run ends in outcome.
_run_cli_command(args, use_json_format, outcome) ==
    IF outcome.cond = "timed-out" THEN ErrorDict(<<"Command timed out">>)
    ELSE IF outcome.cond = "raised" THEN ErrorDict(outcome.exc)
    ELSE IF outcome.returncode # 0
    THEN ErrorDict(IF outcome.stderr # << >> THEN outcome.stderr ELSE <<"Command failed">>)
    ELSE IF use_json_format
    THEN JsonResult(outcome.stdout, json_loads(outcome.stdout))
    ELSE SuccessDict(JObj(<<KeyOutput>>, <<JStr(outcome.stdout)>>))

\* json.dumps(data, indent=2) of a result dict itself (the fallback branch).
DictAsJson(data) ==
    LET e == IF "error" \in data.keys
             THEN DictPut(JObj(<< >>, << >>), <<"e", "r", "r", "o", "r">>, JStr(data.error))
             ELSE JObj(<< >>, << >>)
        su == IF "success" \in data.keys
              THEN DictPut(e, <<"s", "u", "c", "c", "e", "s", "s">>, JBool(data.success))
              ELSE e
    IN  IF "data" \in data.keys THEN DictPut(su, <<"d", "a", "t", "a">>, data.data) ELSE su

\* The truncation with >= for >: a text of exactly the limit gets the marker.
Truncated_inclusive(formatted) ==
    IF Len(formatted) >= TruncateLimit
    THEN Take(formatted, TruncateLimit) \o <<"\n... (truncated)">>
    ELSE formatted

\* formatted[:5000] + "\n... (truncated)" when formatted is too long.
Truncated(formatted) ==
    IF Len(formatted) > TruncateLimit
    THEN Take(formatted, TruncateLimit) \o <<"\n... (truncated)">>
    ELSE formatted

\* The content _update_result shows for data.
ResultContent(data) ==
    IF "error" \in data.keys THEN <<"ERROR:\n">> \o data.error
    ELSE IF "success" \in data.keys /\ data.success
    THEN <<"SUCCESS:\n">> \o Truncated(json_dumps(data.data, 0))
    ELSE json_dumps(DictAsJson(data), 0)

\* str(v) of a parsed JSON value, as an f-string shows it (repr inside containers).
RECURSIVE PyRepr(_), PyReprMembers(_, _)
PyRepr(v) ==
    IF v.t = "null" THEN <<"None">>
    ELSE IF v.t = "bool" THEN (IF v.n = 1 THEN <<"True">> ELSE <<"False">>)
    ELSE IF v.t = "num" THEN Digits(v.n)
    ELSE IF v.t = "str" THEN <<"'">> \o v.s \o <<"'">>
    ELSE IF v.t = "arr" THEN <<"[">> \o PyReprMembers(v, Len(v.items)) \o <<"]">>
    ELSE <<"{">> \o PyReprMembers(v, Len(v.items)) \o <<"}">>

PyReprMembers(v, k) ==
    IF k = 0 THEN << >>
    ELSE PyReprMembers(v, k - 1)
            \o (IF k > 1 THEN <<", ">> ELSE << >>)
            \o (IF v.t = "obj" THEN <<"'">> \o v.keys[k] \o <<"'", ": ">> ELSE << >>)
            \o PyRepr(v.items[k])

PyStr(v) == IF v.t = "str" THEN v.s ELSE PyRepr(v)

\* ------------------------------------------------------------------- state

(***************************************************************************)
(* A widget is a record [w, id, text]: text is the content of a Static or  *)
(* Label, the label of a Button, the value of an Input.  Placeholders,     *)
(* variants, classes and the emoji of the labels are left out.             *)
(***************************************************************************)
Static(t, id) == [w |-> "Static", id |-> id, text |-> t]
Label(t) == [w |-> "Label", id |-> "", text |-> t]
Input(id) == [w |-> "Input", id |-> id, text |-> << >>]
Button(t, id) == [w |-> "Button", id |-> id, text |-> <<t>>]

VARIABLES
    running,           \* the application has neither quit nor crashed
    welcome_text,      \* the content of #welcome-text, the title
    result_container,  \* the children of #result-container, in order
    last,              \* what the last event did (history, not program state)
    inbox,             \* the events the message queue holds, oldest first
    outstanding        \* the events whose handler is inside subprocess.run

vars == <<running, welcome_text, result_container, last, inbox, outstanding>>

\* The buttons compose() puts in the sidebar; they are never removed.
SidebarButtons ==
    {"btn-system", "btn-profile", "btn-create-entity", "btn-search",
     "btn-graph", "btn-export", "btn-import", "btn-list"}

Children(w) == {i \in DOMAIN result_container : result_container[i].w = w}

\* A Button with this id is on the screen.
ButtonMounted(id) ==
    id \in SidebarButtons \/ \E i \in Children("Button") : result_container[i].id = id

InputIds == {result_container[i].id : i \in Children("Input")}

\* self.query_one("#<id>", Input).value
Value(id) == result_container[CHOOSE i \in Children("Input") : result_container[i].id = id].text

\* The values of the Inputs on the screen.
Fields == [id \in InputIds |-> Value(id)]

\* The view on the screen, told by the widgets of the container: a form or a
\* menu by its buttons, a result by the Static _update_result mounts, the
\* welcome screen by the Static compose() mounts.
View ==
    IF ButtonMounted("btn-submit-entity") THEN "create-entity"
    ELSE IF ButtonMounted("btn-submit-search") THEN "search"
    ELSE IF ButtonMounted("btn-submit-explore") THEN "graph-explore"
    ELSE IF ButtonMounted("btn-submit-import") THEN "import"
    ELSE IF ButtonMounted("btn-export-json") THEN "export"
    ELSE IF ButtonMounted("btn-submit-profile-update") THEN "profile-update"
    ELSE IF ButtonMounted("btn-submit-profile-pref") THEN "add-preference"
    ELSE IF ButtonMounted("btn-submit-reflect") THEN "reflect"
    ELSE IF ButtonMounted("btn-sys-health") THEN "system-menu"
    ELSE IF ButtonMounted("btn-profile-show") THEN "profile-menu"
    ELSE IF ButtonMounted("btn-graph-pagerank") THEN "graph-menu"
    ELSE IF result_container = <<Static(<<"Results will appear here...">>, "result-text")>>
    THEN "welcome"
    ELSE IF \E i \in Children("Static") : result_container[i].id = "result-text" THEN "result"
    ELSE "other"

Call(args, use_json_format, outcome) ==
    [cmd |-> Cmd(args, use_json_format), use_json_format |-> use_json_format, outcome |-> outcome]

(***************************************************************************)
(* The record of an event: the handler that ran, the view and the Input    *)
(* values it found, the backend invocations it made and what               *)
(* _run_cli_command returned for each, the dicts it gave to                *)
(* _update_result, and whether it ended in an uncaught exception.          *)
(***************************************************************************)
Event(handler, before, fields, calls, returned, updates, raised) ==
    [handler |-> handler, before |-> before, fields |-> fields, calls |-> calls,
     returned |-> returned, updates |-> updates, raised |-> raised]

\* A handler that ran no backend command.
Done(handler, updates) ==
    last' = Event(handler, View, Fields, << >>, << >>, updates, FALSE)

\* compose(): the state after construction.
Init ==
    /\ running = TRUE
    /\ welcome_text = "Welcome to CozoDB Memory TUI"
    /\ result_container = <<Static(<<"Results will appear here...">>, "result-text")>>
    /\ last = Event("compose", "other", << >>, << >>, << >>, << >>, FALSE)
    /\ inbox = << >>
    /\ outstanding = << >>

\* What subprocess.run can do: anything when the handler is about to call it,
\* and what the process has decided when the handler is inside the call.
PossibleOutcomes ==
    IF outstanding = << >> THEN Outcomes
    ELSE {o \in Outcomes : o.cond = outstanding[1].cond}

\* _update_result without remove_children(): the Static is mounted after the
\* widgets that are there.
_update_result_append(data) ==
    result_container' = Append(result_container, Static(ResultContent(data), "result-text"))

\* _update_result: the container's children are replaced by one Static.
_update_result(data) ==
    result_container' = <<Static(ResultContent(data), "result-text")>>

\* self._update_result(result): the end of a handler that ran the backend;
\* ran is what _run_cli_command returned.
ShowResult(handler, title, call, ran, result) ==
    /\ welcome_text' = title
    /\ _update_result(result)
    /\ last' = Event(handler, View, Fields, <<call>>, <<ran>>, <<result>>, FALSE)
    /\ UNCHANGED running

\* result = self._run_cli_command(*args, use_json_format=...)
\* self._update_result(result)
Returned(handler, title, call, ran) == ShowResult(handler, title, call, ran, ran)

RunAndShow(handler, title, args, use_json_format) ==
    \E outcome \in PossibleOutcomes :
        Returned(handler, title, Call(args, use_json_format, outcome),
                 _run_cli_command(args, use_json_format, outcome))

\* A validation failure: self._update_result({"error": message}); return
Reject(handler, message) ==
    /\ _update_result(ErrorDict(message))
    /\ Done(handler, <<ErrorDict(message)>>)
    /\ UNCHANGED <<running, welcome_text>>

\* A handler that replaces the container's children by a menu or a form.
Show(handler, title, widgets) ==
    /\ welcome_text' = title
    /\ result_container' = widgets
    /\ Done(handler, << >>)
    /\ UNCHANGED running

\* -------------------------------------------------------------- navigation

\* action_system_menu without remove_children(): the menu is mounted after
\* the widgets that are there.
action_system_menu_kept ==
    Show("action_system_menu", "System Tools",
         result_container
         \o <<Static(<<"Select a system operation:">>, ""),
              Button("System Health", "btn-sys-health"),
              Button("System Metrics", "btn-sys-metrics"),
              Button("Reflect (Self-Improvement)", "btn-sys-reflect")>>)

action_system_menu ==
    Show("action_system_menu", "System Tools",
         <<Static(<<"Select a system operation:">>, ""),
           Button("System Health", "btn-sys-health"),
           Button("System Metrics", "btn-sys-metrics"),
           Button("Reflect (Self-Improvement)", "btn-sys-reflect")>>)

\* action_create_entity that leaves a create-entity form on the screen as it
\* is, with the values it holds.
action_create_entity_kept ==
    Show("action_create_entity", "Create Entity",
         IF ButtonMounted("btn-submit-entity") THEN result_container
         ELSE <<Label(<<"Entity Name:">>), Input("input-name"),
                Label(<<"Entity Type:">>), Input("input-type"),
                Label(<<"Metadata (JSON, optional):">>), Input("input-metadata"),
                Button("Create", "btn-submit-entity")>>)

action_create_entity ==
    Show("action_create_entity", "Create Entity",
         <<Label(<<"Entity Name:">>), Input("input-name"),
           Label(<<"Entity Type:">>), Input("input-type"),
           Label(<<"Metadata (JSON, optional):">>), Input("input-metadata"),
           Button("Create", "btn-submit-entity")>>)

action_search ==
    Show("action_search", "Search Memory",
         <<Label(<<"Search Query:">>), Input("input-search-query"),
           Label(<<"Limit (optional):">>), Input("input-search-limit"),
           Button("Standard Search", "btn-submit-search"),
           Button("Agentic Search", "btn-submit-agentic")>>)

action_graph_menu ==
    Show("action_graph_menu", "Graph Operations",
         <<Static(<<"Select a graph operation:">>, ""),
           Button("PageRank", "btn-graph-pagerank"),
           Button("Communities", "btn-graph-communities"),
           Button("Summarize Communities", "btn-graph-summarize"),
           Button("Explore from Entity", "btn-graph-explore")>>)

action_export_menu ==
    Show("action_export_menu", "Export Memory",
         <<Static(<<"Select export format:">>, ""),
           Label(<<"Output File:">>), Input("input-export-file"),
           Button("Export as JSON", "btn-export-json"),
           Button("Export as Markdown", "btn-export-md"),
           Button("Export as Obsidian ZIP", "btn-export-obsidian")>>)

\* action_import_menu without remove_children(): the form is mounted after
\* the widgets that are there.
action_import_menu_kept ==
    Show("action_import_menu", "Import Memory",
         result_container
         \o <<Static(<<"Import data from file:">>, ""),
              Label(<<"Input File:">>), Input("input-import-file"),
              Label(<<"Format:">>), Input("input-import-format"),
              Button("Import", "btn-submit-import")>>)

action_import_menu ==
    Show("action_import_menu", "Import Memory",
         <<Static(<<"Import data from file:">>, ""),
           Label(<<"Input File:">>), Input("input-import-file"),
           Label(<<"Format:">>), Input("input-import-format"),
           Button("Import", "btn-submit-import")>>)

action_profile_menu ==
    Show("action_profile_menu", "User Profile",
         <<Static(<<"User Profile Management:">>, ""),
           Button("Show Profile", "btn-profile-show"),
           Button("Update Metadata", "btn-profile-update"),
           Button("Add Preference", "btn-profile-add-pref"),
           Button("Reset Preferences", "btn-profile-reset")>>)

\* The only form handler that leaves the title as it is.
handle_graph_explore_form ==
    Show("handle_graph_explore_form", welcome_text,
         <<Label(<<"Start Entity ID:">>), Input("input-explore-start"),
           Label(<<"Max Hops:">>), Input("input-explore-hops"),
           Button("Explore", "btn-submit-explore")>>)

action_sys_reflect_form ==
    Show("action_sys_reflect_form", "Reflect (Self-Improvement)",
         <<Label(<<"Entity ID (optional, leave blank for global reflection):">>),
           Input("input-reflect-id"),
           Button("Run Reflection", "btn-submit-reflect")>>)

action_profile_update_form ==
    Show("action_profile_update_form", "Update Profile Metadata",
         <<Label(<<"Profile Name (optional):">>), Input("input-profile-name"),
           Label(<<"Profile Type (optional):">>), Input("input-profile-type"),
           Label(<<"Metadata (JSON, optional):">>), Input("input-profile-metadata"),
           Button("Update", "btn-submit-profile-update")>>)

action_profile_add_pref_form ==
    Show("action_profile_add_pref_form", "Add Preference",
         <<Label(<<"Preference Text:">>), Input("input-pref-text"),
           Label(<<"Metadata (JSON, optional):">>), Input("input-pref-metadata"),
           Button("Add Preference", "btn-submit-profile-pref")>>)

action_show_help ==
    Show("action_show_help", "Help", <<Static(<<"Keyboard Shortcuts: ...">>, "")>>)

\* ----------------------------------------------------------- quick actions

action_show_health ==
    RunAndShow("action_show_health", "System Health", <<<<"system">>, <<"health">>>>, TRUE)

handle_sys_metrics ==
    RunAndShow("handle_sys_metrics", "System Metrics", <<<<"system">>, <<"metrics">>>>, TRUE)

handle_graph_pagerank ==
    RunAndShow("handle_graph_pagerank", "Computing PageRank...",
               <<<<"graph">>, <<"pagerank">>>>, TRUE)

handle_graph_communities ==
    RunAndShow("handle_graph_communities", "Detecting Communities...",
               <<<<"graph">>, <<"communities">>>>, TRUE)

handle_graph_summarize ==
    RunAndShow("handle_graph_summarize", "Summarizing Communities (GraphRAG)...",
               <<<<"graph">>, <<"summarize">>>>, TRUE)

handle_profile_show ==
    RunAndShow("handle_profile_show", welcome_text, <<<<"profile">>, <<"show">>>>, TRUE)

handle_profile_reset ==
    RunAndShow("handle_profile_reset", welcome_text, <<<<"profile">>, <<"reset">>>>, TRUE)

KeyEntities == <<"e", "n", "t", "i", "t", "i", "e", "s">>
KeyObservations == <<"o", "b", "s", "e", "r", "v", "a", "t", "i", "o", "n", "s">>
KeyRelationships == <<"r", "e", "l", "a", "t", "i", "o", "n", "s", "h", "i", "p", "s">>

(***************************************************************************)
(* action_list_entities runs "system health" and mounts Statics of its own *)
(* instead of calling _update_result.  health_data.get raises              *)
(* AttributeError when the parsed value is no dict: the exception leaves   *)
(* the handler after the children were removed, and ends the application.  *)
(***************************************************************************)
\* action_list_entities that shows a failure in the format of _update_result.
ListEntities_rendered(call, result, ok, health_data) ==
    /\ welcome_text' = "Entity List"
    /\ result_container' =
          IF ok /\ health_data.t # "obj" THEN << >>
          ELSE IF ok THEN
            <<Static(<<"Total Entities: ">>
                        \o PyStr(DictGet(health_data, KeyEntities, JNum(0))), ""),
              Static(<<"Total Observations: ">>
                        \o PyStr(DictGet(health_data, KeyObservations, JNum(0))), ""),
              Static(<<"Total Relationships: ">>
                        \o PyStr(DictGet(health_data, KeyRelationships, JNum(0))), ""),
              Static(<<"\nUse CLI to get detailed entity list:\ncozo-memory entity get -i <entity-id>">>, "")>>
          ELSE <<Static(ResultContent(result), "result-text")>>
    /\ running' = ~(ok /\ health_data.t # "obj")
    /\ last' = Event("action_list_entities", View, << >>, <<call>>, <<result>>, << >>,
                     ok /\ health_data.t # "obj")

ListEntities(call, result, ok, health_data) ==
    /\ welcome_text' = "Entity List"
    /\ result_container' =
          IF ok /\ health_data.t # "obj" THEN << >>
          ELSE IF ok THEN
            <<Static(<<"Total Entities: ">>
                        \o PyStr(DictGet(health_data, KeyEntities, JNum(0))), ""),
              Static(<<"Total Observations: ">>
                        \o PyStr(DictGet(health_data, KeyObservations, JNum(0))), ""),
              Static(<<"Total Relationships: ">>
                        \o PyStr(DictGet(health_data, KeyRelationships, JNum(0))), ""),
              Static(<<"\nUse CLI to get detailed entity list:\ncozo-memory entity get -i <entity-id>">>, "")>>
          ELSE <<Static(<<"Error: ">>
                        \o (IF "error" \in result.keys THEN result.error
                            ELSE <<"Unknown error">>), "")>>
    /\ running' = ~(ok /\ health_data.t # "obj")
    /\ last' = Event("action_list_entities", View, << >>, <<call>>, <<result>>, << >>,
                     ok /\ health_data.t # "obj")

ListEntitiesResult(call, result) ==
    ListEntities(call, result, "success" \in result.keys /\ result.success, result.data)

action_list_entities ==
    \E outcome \in PossibleOutcomes :
        ListEntitiesResult(Call(<<<<"system">>, <<"health">>>>, TRUE, outcome),
                           _run_cli_command(<<<<"system">>, <<"health">>>>, TRUE, outcome))

\* ------------------------------------------------------------ form submits

\* handle_create_entity with "and" for "or": only a form with both required
\* fields empty is refused.
handle_create_entity_both ==
    LET name == Value("input-name")
        entity_type == Value("input-type")
        metadata == Value("input-metadata")
        args == <<<<"entity">>, <<"create">>, <<"-n">>, name, <<"-t">>, entity_type>>
                    \o (IF metadata # << >> THEN <<<<"-m">>, metadata>> ELSE << >>)
    IN  IF name = << >> /\ entity_type = << >>
        THEN Reject("handle_create_entity", <<"Name", " and ", "type", " are required">>)
        ELSE RunAndShow("handle_create_entity", welcome_text, args, TRUE)

\* handle_create_entity with a message that names the empty fields only.
handle_create_entity_named ==
    LET name == Value("input-name")
        entity_type == Value("input-type")
        metadata == Value("input-metadata")
        args == <<<<"entity">>, <<"create">>, <<"-n">>, name, <<"-t">>, entity_type>>
                    \o (IF metadata # << >> THEN <<<<"-m">>, metadata>> ELSE << >>)
    IN  IF name = << >> \/ entity_type = << >>
        THEN Reject("handle_create_entity",
                    IF entity_type # << >> THEN <<"Name", " is required">>
                    ELSE IF name # << >> THEN <<"type", " is required">>
                    ELSE <<"Name", " and ", "type", " are required">>)
        ELSE RunAndShow("handle_create_entity", welcome_text, args, TRUE)

handle_create_entity ==
    LET name == Value("input-name")
        entity_type == Value("input-type")
        metadata == Value("input-metadata")
        args == <<<<"entity">>, <<"create">>, <<"-n">>, name, <<"-t">>, entity_type>>
                    \o (IF metadata # << >> THEN <<<<"-m">>, metadata>> ELSE << >>)
    IN  IF name = << >> \/ entity_type = << >>
        THEN Reject("handle_create_entity", <<"Name", " and ", "type", " are required">>)
        ELSE RunAndShow("handle_create_entity", welcome_text, args, TRUE)

handle_search ==
    LET query == Value("input-search-query")
        limit == Value("input-search-limit")
        args == <<<<"search">>, <<"query">>, <<"-q">>, query>>
                    \o (IF limit # << >> THEN <<<<"-l">>, limit>> ELSE << >>)
    IN  IF query = << >>
        THEN Reject("handle_search", <<"Search query", " is required">>)
        ELSE RunAndShow("handle_search", welcome_text, args, TRUE)

handle_agentic_search ==
    LET query == Value("input-search-query")
        limit == Value("input-search-limit")
        args == <<<<"search">>, <<"agentic">>, <<"-q">>, query>>
                    \o (IF limit # << >> THEN <<<<"-l">>, limit>> ELSE << >>)
    IN  IF query = << >>
        THEN Reject("handle_agentic_search", <<"Search query", " is required">>)
        ELSE RunAndShow("handle_agentic_search", "Agentic Search Running...", args, TRUE)

\* handle_import that makes up a message for a success, as handle_export does.
handle_import_message ==
    LET file_path == Value("input-import-file")
        format_type == Value("input-import-format")
        args == <<<<"import">>, <<"file">>, <<"-i">>, file_path, <<"-f">>,
                  IF format_type # << >> THEN format_type ELSE <<"cozo">>>>
    IN  IF file_path = << >>
        THEN Reject("handle_import", <<"File path", " is required">>)
        ELSE \E outcome \in PossibleOutcomes :
                ShowResult("handle_import", welcome_text, Call(args, FALSE, outcome),
                           _run_cli_command(args, FALSE, outcome),
                           IF outcome.cond = "completed" /\ outcome.returncode = 0
                           THEN SuccessDict(JObj(<<KeyMessage>>, <<JStr(<<"Imported ">> \o file_path)>>))
                           ELSE _run_cli_command(args, FALSE, outcome))

handle_import ==
    LET file_path == Value("input-import-file")
        format_type == Value("input-import-format")
        args == <<<<"import">>, <<"file">>, <<"-i">>, file_path, <<"-f">>,
                  IF format_type # << >> THEN format_type ELSE <<"cozo">>>>
    IN  IF file_path = << >>
        THEN Reject("handle_import", <<"File path", " is required">>)
        ELSE RunAndShow("handle_import", welcome_text, args, FALSE)

handle_graph_explore ==
    LET start_id == Value("input-explore-start")
        hops == Value("input-explore-hops")
        args == <<<<"graph">>, <<"explore">>, <<"-s">>, start_id>>
                    \o (IF hops # << >> THEN <<<<"-h">>, hops>> ELSE << >>)
    IN  IF start_id = << >>
        THEN Reject("handle_graph_explore", <<"Start entity ID", " is required">>)
        ELSE RunAndShow("handle_graph_explore", welcome_text, args, TRUE)

handle_sys_reflect ==
    LET entity_id == Value("input-reflect-id")
        args == <<<<"system">>, <<"reflect">>>>
                    \o (IF entity_id # << >> THEN <<<<"-i">>, entity_id>> ELSE << >>)
    IN  RunAndShow("handle_sys_reflect", "Running Reflection...", args, TRUE)

\* handle_profile_update without the check of len(args).
handle_profile_update_unchecked ==
    LET name == Value("input-profile-name")
        type == Value("input-profile-type")
        metadata == Value("input-profile-metadata")
        args == <<<<"profile">>, <<"update">>>>
                    \o (IF name # << >> THEN <<<<"-n">>, name>> ELSE << >>)
                    \o (IF type # << >> THEN <<<<"-t">>, type>> ELSE << >>)
                    \o (IF metadata # << >> THEN <<<<"-m">>, metadata>> ELSE << >>)
    IN  RunAndShow("handle_profile_update", welcome_text, args, TRUE)

handle_profile_update ==
    LET name == Value("input-profile-name")
        type == Value("input-profile-type")
        metadata == Value("input-profile-metadata")
        args == <<<<"profile">>, <<"update">>>>
                    \o (IF name # << >> THEN <<<<"-n">>, name>> ELSE << >>)
                    \o (IF type # << >> THEN <<<<"-t">>, type>> ELSE << >>)
                    \o (IF metadata # << >> THEN <<<<"-m">>, metadata>> ELSE << >>)
    IN  IF Len(args) = 2
        THEN Reject("handle_profile_update", <<"At least one field must be provided">>)
        ELSE RunAndShow("handle_profile_update", welcome_text, args, TRUE)

handle_profile_add_pref ==
    LET text == Value("input-pref-text")
        metadata == Value("input-pref-metadata")
        args == <<<<"profile">>, <<"add-preference">>, <<"-t">>, text>>
                    \o (IF metadata # << >> THEN <<<<"-m">>, metadata>> ELSE << >>)
    IN  IF text = << >>
        THEN Reject("handle_profile_add_pref", <<"Preference text", " is required">>)
        ELSE RunAndShow("handle_profile_add_pref", welcome_text, args, TRUE)

\* The characters of a format name, and f"export.{format_type}".
FormatChars(format_type) ==
    IF format_type = "json" THEN <<"j", "s", "o", "n">>
    ELSE IF format_type = "markdown" THEN <<"m", "a", "r", "k", "d", "o", "w", "n">>
    ELSE <<"o", "b", "s", "i", "d", "i", "a", "n">>
DefaultExportPath(format_type) == <<"e", "x", "p", "o", "r", "t", ".">> \o FormatChars(format_type)
ExportedTo == <<"E", "x", "p", "o", "r", "t", "e", "d", " ", "t", "o", " ">>

\* handle_export that marks an export that did not succeed with
\* "success": False, next to the message.
ExportResult_marked(file_path, ran) ==
    [SuccessDict(JObj(<<KeyMessage>>, <<JStr(ExportedTo \o file_path)>>))
        EXCEPT !.success = "success" \in ran.keys /\ ran.success]

\* handle_export that puts its message in the place of a failure too.
ExportResult_always(file_path, ran) ==
    SuccessDict(JObj(<<KeyMessage>>, <<JStr(ExportedTo \o file_path)>>))

\* if "success" in result and result["success"]: result = {... "Exported to ..."}
ExportResult(file_path, ran) ==
    IF "success" \in ran.keys /\ ran.success
    THEN SuccessDict(JObj(<<KeyMessage>>, <<JStr(ExportedTo \o file_path)>>))
    ELSE ran

ExportArgs(format_type, file_path) ==
    IF format_type = "json"
    THEN <<<<"export">>, <<"json">>, <<"-o">>, file_path, <<"--include-metadata">>,
           <<"--include-relationships">>, <<"--include-observations">>>>
    ELSE IF format_type = "markdown"
    THEN <<<<"export">>, <<"markdown">>, <<"-o">>, file_path>>
    ELSE <<<<"export">>, <<"obsidian">>, <<"-o">>, file_path>>

\* The value of the Input as it is, without "or".
ExportPath_entered(format_type, value) == value

\* file_input.value or f"export.{format_type}"
ExportPath(format_type, value) ==
    IF value # << >> THEN value ELSE DefaultExportPath(format_type)

Exported(call, file_path, ran) ==
    ShowResult("handle_export", welcome_text, call, ran, ExportResult(file_path, ran))

RunExport(args, file_path) ==
    \E outcome \in PossibleOutcomes :
        Exported(Call(args, FALSE, outcome), file_path, _run_cli_command(args, FALSE, outcome))

handle_export(format_type) ==
    RunExport(ExportArgs(format_type, ExportPath(format_type, Value("input-export-file"))),
              ExportPath(format_type, Value("input-export-file")))

\* ----------------------------------------------------- keys and the Inputs

\* Binding("q", "quit"): the application exits.
action_quit ==
    /\ running' = FALSE
    /\ Done("action_quit", << >>)
    /\ UNCHANGED <<welcome_text, result_container>>

\* self.action_show_health() creates a coroutine that is never awaited: the
\* title changes and nothing else happens.
action_refresh ==
    /\ welcome_text' = "Refreshed"
    /\ Done("action_refresh", << >>)
    /\ UNCHANGED <<running, result_container>>

\* The user edits an Input on the screen: its value becomes value.
edit_field(id, value) ==
    /\ id \in InputIds
    /\ Value(id) # value
    /\ result_container' =
          [i \in DOMAIN result_container |->
              IF result_container[i].w = "Input" /\ result_container[i].id = id
              THEN [result_container[i] EXCEPT !.text = value]
              ELSE result_container[i]]
    /\ last' = Event("edit_field", View, << >>, << >>, << >>, << >>, FALSE)
    /\ UNCHANGED <<running, welcome_text>>

\* ---------------------------------------------------------------- dispatch

\* An event that reaches the running application while the queue is empty and
\* no handler runs: its handler runs at once, from its first line to its last.
Direct == running /\ UNCHANGED <<inbox, outstanding>>

\* event.button.id of a Button.Pressed message the running application gets
Pressed(id) == Direct /\ ButtonMounted(id)

on_button_pressed ==
    \/ Pressed("btn-system") /\ action_system_menu
    \/ Pressed("btn-profile") /\ action_profile_menu
    \/ Pressed("btn-create-entity") /\ action_create_entity
    \/ Pressed("btn-search") /\ action_search
    \/ Pressed("btn-graph") /\ action_graph_menu
    \/ Pressed("btn-export") /\ action_export_menu
    \/ Pressed("btn-import") /\ action_import_menu
    \/ Pressed("btn-list") /\ action_list_entities
    \/ Pressed("btn-sys-health") /\ action_show_health
    \/ Pressed("btn-sys-metrics") /\ handle_sys_metrics
    \/ Pressed("btn-sys-reflect") /\ action_sys_reflect_form
    \/ Pressed("btn-profile-show") /\ handle_profile_show
    \/ Pressed("btn-profile-update") /\ action_profile_update_form
    \/ Pressed("btn-profile-add-pref") /\ action_profile_add_pref_form
    \/ Pressed("btn-profile-reset") /\ handle_profile_reset
    \/ Pressed("btn-submit-entity") /\ handle_create_entity
    \/ Pressed("btn-submit-search") /\ handle_search
    \/ Pressed("btn-submit-profile-update") /\ handle_profile_update
    \/ Pressed("btn-submit-profile-pref") /\ handle_profile_add_pref
    \/ Pressed("btn-submit-import") /\ handle_import
    \/ Pressed("btn-submit-agentic") /\ handle_agentic_search
    \/ Pressed("btn-submit-reflect") /\ handle_sys_reflect
    \/ Pressed("btn-graph-pagerank") /\ handle_graph_pagerank
    \/ Pressed("btn-graph-communities") /\ handle_graph_communities
    \/ Pressed("btn-graph-summarize") /\ handle_graph_summarize
    \/ Pressed("btn-graph-explore") /\ handle_graph_explore_form
    \/ Pressed("btn-export-json") /\ handle_export("json")
    \/ Pressed("btn-export-md") /\ handle_export("markdown")
    \/ Pressed("btn-export-obsidian") /\ handle_export("obsidian")
    \/ Pressed("btn-submit-explore") /\ handle_graph_explore

\* BINDINGS
on_key ==
    \/ Direct /\ action_quit
    \/ Direct /\ action_show_help
    \/ Direct /\ action_refresh

on_input_changed ==
    Direct /\ \E id \in InputIds, value \in FieldValues : edit_field(id, value)

Next == on_button_pressed \/ on_key \/ on_input_changed

Spec == Init /\ [][Next]_vars

\* ------------------------------------------------------ the renderer alone

(***************************************************************************)
(* _update_result as a function of its argument: from the state after      *)
(* construction it is given one success dict whose payload, printed by     *)
(* json.dumps, is about as long as the truncation limit.  The payload is   *)
(* a JSON string (a backend that prints one string) or {"output": text}    *)
(* (what _run_cli_command returns for import).                             *)
(***************************************************************************)
RenderLengths == (TruncateLimit - RenderMargin)..(TruncateLimit + RenderMargin)

\* self._update_result(data), called on the first screen.
Render(data) ==
    /\ running
    /\ last.handler = "compose"
    /\ _update_result(data)
    /\ last' = Event("_update_result", View, << >>, << >>, << >>, <<data>>, FALSE)
    /\ UNCHANGED <<running, welcome_text, inbox, outstanding>>

\* json.dumps gives n characters for a string of n - 2.
render_string == \E n \in RenderLengths : Render(SuccessDict(JStr(Repeat("x", n - 2))))

\* json.dumps gives n characters for {"output": text} with a text of n - 18.
render_output ==
    \E n \in RenderLengths :
        Render(SuccessDict(JObj(<<KeyOutput>>, <<JStr(Repeat("x", n - 18))>>)))

RenderNext == render_string \/ render_output

SpecRender == Init /\ [][RenderNext]_vars

\* ------------------------------------------------------- the message queue

(***************************************************************************)
(* The handlers are coroutines of one event loop, and _run_cli_command     *)
(* calls subprocess.run in the loop's thread: from the call to its return  *)
(* the loop handles nothing.  The terminal's input is read by the driver's *)
(* thread, which posts each event to the application's message queue; the  *)
(* loop takes the events from the queue one at a time, oldest first.       *)
(*                                                                         *)
(* Here the user works with three things that are always there (the        *)
(* sidebar's list and system buttons, the key q) and with the system menu  *)
(* and the reflect form, whose buttons the user presses only on a screen   *)
(* that is up to date.                                                     *)
(***************************************************************************)
MaxInbox == 1

QueuedAnyTime == {"btn-list", "btn-system", "q"}
QueuedOnScreen == {"btn-sys-health", "btn-sys-reflect", "btn-submit-reflect"}
LoopEvents == QueuedAnyTime \cup QueuedOnScreen

\* The handlers of these events reach subprocess.run whatever the state is.
Blocking(e) == e \in {"btn-list", "btn-sys-health", "btn-submit-reflect"}

\* What such a handler has written to #welcome-text when it reaches the call.
TitleBefore(e) ==
    CASE e = "btn-list" -> "Entity List"
      [] e = "btn-sys-health" -> "System Health"
      [] e = "btn-submit-reflect" -> "Running Reflection..."

\* How subprocess.run can end: the conditions of Outcomes.
Conds == {o.cond : o \in Outcomes}

\* The handler of the event e, from its first line to its last.
HandlerOf(e) ==
    \/ e = "btn-list" /\ action_list_entities
    \/ e = "btn-system" /\ action_system_menu
    \/ e = "btn-sys-health" /\ action_show_health
    \/ e = "btn-sys-reflect" /\ action_sys_reflect_form
    \/ e = "btn-submit-reflect" /\ handle_sys_reflect
    \/ e = "q" /\ action_quit

\* The driver's thread puts an event on the queue; this needs no loop.
post_message(e) ==
    /\ running
    /\ Len(inbox) < MaxInbox
    /\ \/ e \in QueuedAnyTime
       \/ e \in QueuedOnScreen /\ inbox = << >> /\ outstanding = << >> /\ ButtonMounted(e)
    /\ inbox' = Append(inbox, e)
    /\ UNCHANGED <<running, welcome_text, result_container, last, outstanding>>

\* enter_subprocess_run with every handler a task of its own: the loop takes
\* the next event while a handler waits for its process.
enter_subprocess_run_task ==
    /\ running
    /\ inbox # << >>
    /\ Blocking(Head(inbox))
    /\ \E cond \in Conds :
          outstanding' = Append(outstanding, [event |-> Head(inbox), cond |-> cond])
    /\ inbox' = Tail(inbox)
    /\ welcome_text' = TitleBefore(Head(inbox))
    /\ UNCHANGED <<running, result_container, last>>

\* The loop, free, takes the oldest event; its handler runs up to the call of
\* subprocess.run and stays there.  cond is how the call is going to end,
\* which the process decides.
enter_subprocess_run ==
    /\ running
    /\ outstanding = << >>
    /\ inbox # << >>
    /\ Blocking(Head(inbox))
    /\ \E cond \in Conds :
          outstanding' = <<[event |-> Head(inbox), cond |-> cond]>>
    /\ inbox' = Tail(inbox)
    /\ welcome_text' = TitleBefore(Head(inbox))
    /\ UNCHANGED <<running, result_container, last>>

\* leave_subprocess_run without timeout=30: a process that does not exit is
\* waited for.
leave_subprocess_run_untimed ==
    /\ running
    /\ outstanding # << >>
    /\ outstanding[1].cond # "timed-out"
    /\ HandlerOf(outstanding[1].event)
    /\ outstanding' = Tail(outstanding)
    /\ UNCHANGED inbox

\* subprocess.run returns or raises, after 30 seconds at the latest, and the
\* handler runs to its end.
leave_subprocess_run ==
    /\ running
    /\ outstanding # << >>
    /\ HandlerOf(outstanding[1].event)
    /\ outstanding' = Tail(outstanding)
    /\ UNCHANGED inbox

\* The loop, free, takes the oldest event, whose handler runs no process.
dispatch ==
    /\ running
    /\ outstanding = << >>
    /\ inbox # << >>
    /\ ~Blocking(Head(inbox))
    /\ HandlerOf(Head(inbox))
    /\ inbox' = Tail(inbox)
    /\ UNCHANGED outstanding

LoopNext ==
    \/ \E e \in LoopEvents : post_message(e)
    \/ enter_subprocess_run
    \/ leave_subprocess_run
    \/ dispatch

SpecLoop == Init /\ [][LoopNext]_vars

\* subprocess.run(..., timeout=30) ends: the process exits, or is killed when
\* the 30 seconds are over, or was never started.
SpecLoopFair == SpecLoop /\ WF_vars(leave_subprocess_run)

\* ================================================================ properties

\* The submit handlers of the forms with required fields, and those fields.
RequiredFields ==
    [handle_create_entity |-> {"input-name", "input-type"},
     handle_search |-> {"input-search-query"},
     handle_agentic_search |-> {"input-search-query"},
     handle_import |-> {"input-import-file"},
     handle_graph_explore |-> {"input-explore-start"},
     handle_profile_add_pref |-> {"input-pref-text"}]

\* The last event was the submit handler h, which found a required field empty.
RequiredEmpty(h) ==
    last.handler = h /\ \E f \in RequiredFields[h] : last.fields[f] = << >>

\* The last event gave _update_result one dict, a Failure, which is what the
\* result area shows.
FailureShown ==
    /\ Len(last.updates) = 1
    /\ last.updates[1].keys = {"error"}
    /\ result_container = <<Static(<<"ERROR:\n">> \o last.updates[1].error, "result-text")>>

(***************************************************************************)
(* C1: on every form with required fields (create entity: name and type;   *)
(* search and agentic search: query; import: file path; graph explore:     *)
(* start id; add preference: text), a submit that finds at least one       *)
(* required field empty makes the result a Failure and runs the backend    *)
(* zero times.                                                             *)
(***************************************************************************)
C1_RequiredFieldEmpty ==
    \A h \in DOMAIN RequiredFields :
        RequiredEmpty(h) => FailureShown /\ Len(last.calls) = 0

\* Create entity was submitted with a name and without a type, and refused.
C1_Witness ==
    /\ last.handler = "handle_create_entity"
    /\ last.fields["input-name"] # << >>
    /\ last.fields["input-type"] = << >>
    /\ FailureShown
    /\ Len(last.calls) = 0

\* Every Input the last event found was empty.
AllEmpty == \A f \in DOMAIN last.fields : last.fields[f] = << >>

\* What a submit of profile update does when its refusal has the text message.
ProfileUpdate(message) ==
    last.handler = "handle_profile_update" =>
        IF AllEmpty
        THEN FailureShown /\ last.updates[1].error = message /\ Len(last.calls) = 0
        ELSE Len(last.calls) = 1

(***************************************************************************)
(* C2, as stated: profile update submitted with name, type and metadata    *)
(* all empty gives Failure("at least one field must be provided") and no   *)
(* backend invocation; with at least one of them non-empty it makes        *)
(* exactly one invocation.                                                 *)
(***************************************************************************)
C2_Original == ProfileUpdate(<<"at least one field must be provided">>)

(***************************************************************************)
(* C2, amended: profile update submitted with name, type and metadata all  *)
(* empty gives Failure("At least one field must be provided"), with a      *)
(* capital A, and no backend invocation; with at least one of them         *)
(* non-empty it makes exactly one invocation.                              *)
(***************************************************************************)
C2_Amended == ProfileUpdate(<<"At least one field must be provided">>)

\* Profile update was submitted with its three fields empty.
C2_Witness ==
    /\ last.handler = "handle_profile_update"
    /\ DOMAIN last.fields = {"input-profile-name", "input-profile-type", "input-profile-metadata"}
    /\ AllEmpty
    /\ FailureShown

\* The word a validation message has for a required field.
FieldName ==
    ("input-name" :> "Name") @@ ("input-type" :> "type")
    @@ ("input-search-query" :> "Search query") @@ ("input-import-file" :> "File path")
    @@ ("input-explore-start" :> "Start entity ID") @@ ("input-pref-text" :> "Preference text")

\* The message names the field.
Names(message, f) == \E i \in DOMAIN message : message[i] = FieldName[f]

(***************************************************************************)
(* C3, as stated: when a submit is refused because a required field is     *)
(* empty, the message is "<field> is required" and names the fields that   *)
(* are empty and no field that was filled in; so create entity with only   *)
(* one of name and type empty names that one.                              *)
(***************************************************************************)
C3_Original ==
    \A h \in DOMAIN RequiredFields :
        RequiredEmpty(h) /\ FailureShown =>
            LET message == last.updates[1].error
            IN  /\ message[Len(message)] = " is required"
                /\ \A f \in RequiredFields[h] : Names(message, f) <=> last.fields[f] = << >>

\* The message each handler has for its required fields.
RequiredMessage ==
    [handle_create_entity |-> <<"Name", " and ", "type", " are required">>,
     handle_search |-> <<"Search query", " is required">>,
     handle_agentic_search |-> <<"Search query", " is required">>,
     handle_import |-> <<"File path", " is required">>,
     handle_graph_explore |-> <<"Start entity ID", " is required">>,
     handle_profile_add_pref |-> <<"Preference text", " is required">>]

(***************************************************************************)
(* C3, amended: when a submit is refused because a required field is       *)
(* empty, the message is fixed by the form and names all its required      *)
(* fields: "<field> is required" on the forms with one required field,     *)
(* and "Name and type are required" on create entity, whichever of name    *)
(* and type is empty, so that it names the field that was filled in too.   *)
(***************************************************************************)
C3_Amended ==
    \A h \in DOMAIN RequiredFields :
        RequiredEmpty(h) =>
            /\ FailureShown
            /\ last.updates[1].error = RequiredMessage[h]
            /\ \A f \in RequiredFields[h] : Names(last.updates[1].error, f)

\* Create entity was submitted with a type and without a name, and the
\* message names both.
C3_Witness ==
    /\ last.handler = "handle_create_entity"
    /\ last.fields["input-name"] = << >>
    /\ last.fields["input-type"] # << >>
    /\ FailureShown
    /\ Names(last.updates[1].error, "input-name")
    /\ Names(last.updates[1].error, "input-type")

\* The handlers that submit a form.
SubmitHandlers ==
    {"handle_create_entity", "handle_search", "handle_agentic_search", "handle_import",
     "handle_graph_explore", "handle_sys_reflect", "handle_profile_update",
     "handle_profile_add_pref", "handle_export"}

\* The buttons that run each of them.
SubmitButtons ==
    [handle_create_entity |-> {"btn-submit-entity"},
     handle_search |-> {"btn-submit-search"},
     handle_agentic_search |-> {"btn-submit-agentic"},
     handle_import |-> {"btn-submit-import"},
     handle_graph_explore |-> {"btn-submit-explore"},
     handle_sys_reflect |-> {"btn-submit-reflect"},
     handle_profile_update |-> {"btn-submit-profile-update"},
     handle_profile_add_pref |-> {"btn-submit-profile-pref"},
     handle_export |-> {"btn-export-json", "btn-export-md", "btn-export-obsidian"}]

\* The last event was a submit that ended in a Failure.
SubmitFailed ==
    /\ last.handler \in SubmitHandlers
    /\ Len(last.updates) = 1
    /\ last.updates[1].keys = {"error"}

(***************************************************************************)
(* C4, as stated: a submit that ends in a Failure changes the result and   *)
(* nothing else: the view, the form and the entered values are as before,  *)
(* and the button of the same submit is still there to press.              *)
(***************************************************************************)
C4_Original ==
    SubmitFailed =>
        /\ View = last.before
        /\ Fields = last.fields
        /\ \A b \in SubmitButtons[last.handler] : ButtonMounted(b)

(***************************************************************************)
(* C4, amended: a submit that ends in a Failure puts the rendered Failure  *)
(* in the place of the form: the result area holds the Failure alone, the  *)
(* Inputs with their values and the submit button are gone, so the same    *)
(* submit is not enabled in the next state; the application keeps running  *)
(* and the sidebar still leads to every form.                              *)
(***************************************************************************)
C4_Amended ==
    SubmitFailed =>
        /\ FailureShown
        /\ View = "result"
        /\ InputIds = {}
        /\ \A b \in SubmitButtons[last.handler] : ~ButtonMounted(b)
        /\ running
        /\ \A b \in SidebarButtons : ButtonMounted(b)

\* A search with a query was submitted, the backend timed out, and the form
\* with the query is gone.
C4_Witness ==
    /\ last.handler = "handle_search"
    /\ last.before = "search"
    /\ last.fields["input-search-query"] # << >>
    /\ Len(last.calls) = 1
    /\ last.calls[1].outcome.cond = "timed-out"
    /\ SubmitFailed
    /\ View = "result"
    /\ InputIds = {}

\* The handlers that open a form, and the Inputs of the form.
FormInputs ==
    [action_create_entity |-> {"input-name", "input-type", "input-metadata"},
     action_search |-> {"input-search-query", "input-search-limit"},
     handle_graph_explore_form |-> {"input-explore-start", "input-explore-hops"},
     action_import_menu |-> {"input-import-file", "input-import-format"},
     action_export_menu |-> {"input-export-file"},
     action_profile_update_form |-> {"input-profile-name", "input-profile-type",
                                     "input-profile-metadata"},
     action_profile_add_pref_form |-> {"input-pref-text", "input-pref-metadata"},
     action_sys_reflect_form |-> {"input-reflect-id"}]

\* The handler named h, as an action.
Navigate(h) ==
    CASE h = "action_create_entity" -> action_create_entity
      [] h = "action_search" -> action_search
      [] h = "handle_graph_explore_form" -> handle_graph_explore_form
      [] h = "action_import_menu" -> action_import_menu
      [] h = "action_export_menu" -> action_export_menu
      [] h = "action_profile_update_form" -> action_profile_update_form
      [] h = "action_profile_add_pref_form" -> action_profile_add_pref_form
      [] h = "action_sys_reflect_form" -> action_sys_reflect_form

\* The handler named h can run now, and running it leaves the screen as it is.
Again(h) ==
    /\ ENABLED (Navigate(h) /\ UNCHANGED <<running, welcome_text, result_container>>)
    /\ ~ENABLED (Navigate(h) /\ ~UNCHANGED <<running, welcome_text, result_container>>)

(***************************************************************************)
(* C5: after any events, opening a form (create entity, search, graph      *)
(* explore, import, export, profile update, add preference, reflect)       *)
(* leaves every field of the form empty, also when the form was on the     *)
(* screen with values before; and opening it once more gives the same      *)
(* screen as opening it once.                                              *)
(***************************************************************************)
C5_FormOpensEmpty ==
    \A h \in DOMAIN FormInputs :
        last.handler = h =>
            /\ InputIds = FormInputs[h]
            /\ \A id \in InputIds : Value(id) = << >>
            /\ Again(h)

\* The create-entity form was opened while it was on the screen with a name
\* in it, and the name is empty now.
C5_Witness ==
    /\ last.handler = "action_create_entity"
    /\ last.before = "create-entity"
    /\ last.fields["input-name"] # << >>
    /\ Value("input-name") = << >>

\* The handlers that open a menu or a form, and the view each opens.
NavTarget ==
    [action_system_menu |-> "system-menu",
     action_profile_menu |-> "profile-menu",
     action_graph_menu |-> "graph-menu",
     action_create_entity |-> "create-entity",
     action_search |-> "search",
     handle_graph_explore_form |-> "graph-explore",
     action_import_menu |-> "import",
     action_export_menu |-> "export",
     action_profile_update_form |-> "profile-update",
     action_profile_add_pref_form |-> "add-preference",
     action_sys_reflect_form |-> "reflect"]

\* The handlers of the quick actions.
QuickHandlers ==
    {"action_show_health", "handle_sys_metrics", "handle_graph_pagerank",
     "handle_graph_communities", "handle_graph_summarize", "handle_profile_show",
     "handle_profile_reset", "action_list_entities"}

\* No Static of the result area is a result: none is the one _update_result
\* mounts, and none starts as a rendered result or a list of totals does.
NoResult ==
    \A i \in Children("Static") :
        /\ result_container[i].id # "result-text"
        /\ result_container[i].text # << >>
        /\ result_container[i].text[1] \notin {"ERROR:\n", "SUCCESS:\n", "Error: ", "Total Entities: "}

(***************************************************************************)
(* C6: navigation to a menu or a form shows the target view, leaves no     *)
(* earlier result on the screen and does not run the backend; only         *)
(* submits and quick actions run the backend.                              *)
(***************************************************************************)
C6_Navigate ==
    /\ \A h \in DOMAIN NavTarget :
            last.handler = h =>
                /\ View = NavTarget[h]
                /\ NoResult
                /\ Len(last.calls) = 0
                /\ Len(last.updates) = 0
    /\ Len(last.calls) > 0 => last.handler \in SubmitHandlers \cup QuickHandlers

\* The system menu was opened while a result was on the screen.
C6_Witness ==
    /\ last.handler = "action_system_menu"
    /\ last.before = "result"
    /\ View = "system-menu"
    /\ NoResult

\* The backend invocations of the last event that ended in the condition
\* cond with an exit status in codes.
Ended(cond, codes) ==
    {i \in DOMAIN last.calls :
        last.calls[i].outcome.cond = cond /\ last.calls[i].outcome.returncode \in codes}

\* The last event showed the Failure with the text message: whatever handler
\* it was got it from _run_cli_command, and the screen shows it and nothing
\* that starts as a success does (list entities has a format of its own).
ShownAsFailure(message) ==
    IF last.handler = "action_list_entities"
    THEN result_container = <<Static(<<"Error: ">> \o message, "")>>
    ELSE /\ last.updates = <<ErrorDict(message)>>
         /\ result_container = <<Static(<<"ERROR:\n">> \o message, "result-text")>>

(***************************************************************************)
(* C7: an invocation that timed out gives Failure("Command timed out"),    *)
(* whatever was captured of stdout and stderr and whether or not JSON was  *)
(* asked for; the output captured before the timeout is neither parsed nor *)
(* shown as a success.                                                     *)
(***************************************************************************)
C7_TimedOut ==
    \A i \in Ended("timed-out", {0}) :
        /\ last.returned[i] = ErrorDict(<<"Command timed out">>)
        /\ ShownAsFailure(<<"Command timed out">>)

\* A command that was asked for JSON timed out after it wrote a JSON document.
C7_Witness ==
    /\ Ended("timed-out", {0}) = {1}
    /\ last.calls[1].use_json_format
    /\ last.calls[1].outcome.stdout = SampleEntities
    /\ last.returned[1] = ErrorDict(<<"Command timed out">>)

\* The message of a process that ended with a non-zero exit status.
FailedMessage(outcome) ==
    IF outcome.stderr # << >> THEN outcome.stderr ELSE <<"Command failed">>

(***************************************************************************)
(* C8: an invocation that completed with a non-zero exit status gives a    *)
(* Failure whose message is the text of stderr, or "Command failed" when   *)
(* stderr is empty; the exit status is looked at before stdout is parsed,  *)
(* so that it is never a success, not even with valid JSON on stdout and   *)
(* JSON asked for.                                                         *)
(***************************************************************************)
C8_NonZeroExit ==
    \A i \in Ended("completed", ReturnCodes \ {0}) :
        /\ last.returned[i] = ErrorDict(FailedMessage(last.calls[i].outcome))
        /\ ShownAsFailure(FailedMessage(last.calls[i].outcome))

\* A command that was asked for JSON wrote a JSON document and nothing to
\* stderr and ended with a non-zero status.
C8_Witness ==
    /\ Ended("completed", ReturnCodes \ {0}) = {1}
    /\ last.calls[1].use_json_format
    /\ last.calls[1].outcome.stdout = SampleEntities
    /\ last.calls[1].outcome.stderr = << >>
    /\ last.returned[1] = ErrorDict(<<"Command failed">>)

\* The message ends with "\nOutput: " and the beginning of stdout, at most
\* OutputQuoteLimit characters of it.
Quotes(message, stdout) ==
    \E k \in DOMAIN message :
        /\ message[k] = "\nOutput: "
        /\ Len(message) - k = Min({Len(stdout), OutputQuoteLimit})
        /\ \A j \in 1..(Len(message) - k) : message[k + j] = stdout[j]

\* C9 for the invocation i of the last event, stdout read by parsed.
StructuredResult(i, parsed) ==
    IF parsed.ok
    THEN last.returned[i] = SuccessDict(parsed.val)
    ELSE /\ last.returned[i].keys = {"error"}
         /\ last.returned[i].error # << >>
         /\ last.returned[i].error[1] = "Failed to parse JSON:"
         /\ Quotes(last.returned[i].error, last.calls[i].outcome.stdout)

(***************************************************************************)
(* C9, as stated: for an invocation that completed with exit status 0 and  *)
(* was asked for JSON: when stdout parses, the result is the success with  *)
(* the parsed value; otherwise it is a Failure whose message starts with   *)
(* "Failed to parse JSON:" and quotes at most the first 200 characters of  *)
(* stdout.  Stdout that does not parse never gives a success.              *)
(***************************************************************************)
C9_StructuredOutput ==
    \A i \in Ended("completed", {0}) :
        last.calls[i].use_json_format =>
            StructuredResult(i, json_loads(last.calls[i].outcome.stdout))

(***************************************************************************)
(* C9, what holds: the same for every stdout that json.loads either reads  *)
(* or refuses with a JSONDecodeError.  A stdout on which json.loads raises *)
(* another exception (arrays nested to the recursion limit) gives a        *)
(* Failure as well, with the text of that exception as its message.        *)
(***************************************************************************)
C9_DecodeError ==
    \A i \in Ended("completed", {0}) :
        last.calls[i].use_json_format =>
            IF json_loads(last.calls[i].outcome.stdout).exc = "RecursionError"
            THEN last.returned[i] = ErrorDict(<<RecursionError.msg>>)
            ELSE StructuredResult(i, json_loads(last.calls[i].outcome.stdout))

\* A command that was asked for JSON wrote more than OutputQuoteLimit
\* characters that are no JSON and ended with status 0.
C9_Witness ==
    /\ Ended("completed", {0}) = {1}
    /\ last.calls[1].use_json_format
    /\ last.calls[1].outcome.stdout = SampleLong
    /\ last.returned[1].keys = {"error"}
    /\ last.returned[1].error[1] = "Failed to parse JSON:"
    /\ Quotes(last.returned[1].error, SampleLong)

(***************************************************************************)
(* C10: an invocation that completed with exit status 0 and was not asked  *)
(* for JSON (import, export) gives the success {"output": stdout} for      *)
(* every stdout, the empty one and one that is no JSON included: stdout    *)
(* is not parsed and no decode Failure comes of it.  Import shows that     *)
(* success.                                                                *)
(***************************************************************************)
C10_RawOutput ==
    \A i \in Ended("completed", {0}) :
        ~last.calls[i].use_json_format =>
            /\ last.returned[i]
                 = SuccessDict(JObj(<<KeyOutput>>, <<JStr(last.calls[i].outcome.stdout)>>))
            /\ last.handler = "handle_import" =>
                    /\ last.updates = last.returned
                    /\ result_container[1].text[1] = "SUCCESS:\n"

\* An import wrote text that is no JSON and ended with status 0.
C10_Witness ==
    /\ last.handler = "handle_import"
    /\ Ended("completed", {0}) = {1}
    /\ ~last.calls[1].use_json_format
    /\ last.calls[1].outcome.stdout = SampleNotJson
    /\ last.returned[1].keys = {"success", "data"}
    /\ last.returned[1].data.items = <<JStr(SampleNotJson)>>

\* The text on the screen is "SUCCESS:\n" and then formatted, cut after
\* TruncateLimit characters and marked when it is longer than that.
ShownTruncated(text, formatted) ==
    /\ text # << >>
    /\ text[1] = "SUCCESS:\n"
    /\ IF Len(formatted) > TruncateLimit
       THEN /\ Len(text) = TruncateLimit + 2
            /\ \A j \in 1..TruncateLimit : text[j + 1] = formatted[j]
            /\ text[TruncateLimit + 2] = "\n... (truncated)"
       ELSE /\ Len(text) = Len(formatted) + 1
            /\ \A j \in 1..Len(formatted) : text[j + 1] = formatted[j]

(***************************************************************************)
(* C11: a success whose pretty-printed payload is longer than 5000         *)
(* characters is shown as "SUCCESS:\n", exactly the first 5000 characters  *)
(* of the payload, and "\n... (truncated)"; a payload of at most 5000      *)
(* characters, exactly 5000 included, is shown in full without the marker. *)
(***************************************************************************)
C11_Truncation ==
    \A i \in DOMAIN last.updates :
        last.updates[i].keys = {"success", "data"} /\ last.updates[i].success =>
            /\ result_container = <<Static(result_container[1].text, "result-text")>>
            /\ ShownTruncated(result_container[1].text, json_dumps(last.updates[i].data, 0))

\* A payload of one character more than the limit is on the screen, cut.
C11_Witness ==
    /\ last.handler = "_update_result"
    /\ Len(json_dumps(last.updates[1].data, 0)) = TruncateLimit + 1
    /\ Len(result_container[1].text) = TruncateLimit + 2
    /\ result_container[1].text[TruncateLimit + 2] = "\n... (truncated)"

\* The messages of the Failures the last event produced: those that
\* _run_cli_command returned and those a handler made itself.
FailuresProduced ==
    {last.returned[i].error : i \in {j \in DOMAIN last.returned : "error" \in last.returned[j].keys}}
    \cup {last.updates[i].error : i \in {j \in DOMAIN last.updates : "error" \in last.updates[j].keys}}

\* The result area shows "ERROR:\n" and the message, in the Static of
\* _update_result.
ErrorRendered(message) ==
    result_container = <<Static(<<"ERROR:\n">> \o message, "result-text")>>

ArgAfter(cmd, flag) ==
    IF \E k \in 1..(Len(cmd) - 1) : cmd[k] = flag
    THEN cmd[Min({k \in 1..(Len(cmd) - 1) : cmd[k] = flag}) + 1]
    ELSE << >>

\* The Result export makes up for the path.
ExportedMessage(path) ==
    SuccessDict(JObj(<<KeyMessage>>, <<JStr(<<"E", "x", "p", "o", "r", "t", "e", "d", " ", "t", "o", " ">> \o path)>>))

(***************************************************************************)
(* C13: for each export (json, markdown, obsidian), a backend that         *)
(* completed with exit status 0 gives the Result                           *)
(* {"message": "Exported to <path>"}, with the path that was passed to     *)
(* the backend after -o, and never a Result with the raw stdout; an        *)
(* export that failed (timeout, spawn failure, non-zero exit) keeps its    *)
(* Failure, which the message never replaces.                              *)
(***************************************************************************)
C13_Export ==
    last.handler = "handle_export" =>
        /\ Len(last.calls) = 1
        /\ last.calls[1].cmd[2] \in {<<"json">>, <<"markdown">>, <<"obsidian">>}
        /\ IF 1 \in Ended("completed", {0})
           THEN /\ last.updates = <<ExportedMessage(ArgAfter(last.calls[1].cmd, <<"-o">>))>>
                /\ result_container
                     = <<Static(<<"SUCCESS:\n">> \o json_dumps(last.updates[1].data, 0), "result-text")>>
                /\ last.updates[1].data.keys # <<KeyOutput>>
           ELSE /\ last.updates = last.returned
                /\ last.updates[1].keys = {"error"}
                /\ ErrorRendered(last.updates[1].error)

\* A markdown export to an entered path wrote text and ended with status 0;
\* the Result is the message with that path and not the text.
C13_Witness ==
    /\ last.handler = "handle_export"
    /\ last.calls[1].cmd[2] = <<"markdown">>
    /\ last.fields["input-export-file"] # << >>
    /\ 1 \in Ended("completed", {0})
    /\ last.calls[1].outcome.stdout = SampleNotJson
    /\ last.returned[1].data.items = <<JStr(SampleNotJson)>>
    /\ last.updates = <<ExportedMessage(last.fields["input-export-file"])>>

\* The last event was an import whose backend completed with exit status 0.
Imported == last.handler = "handle_import" /\ 1 \in Ended("completed", {0})

\* {"output": stdout} of the first invocation of the last event.
RawOutput == SuccessDict(JObj(<<KeyOutput>>, <<JStr(last.calls[1].outcome.stdout)>>))

(***************************************************************************)
(* C14, as stated: import is treated like export: when its backend         *)
(* completed with exit status 0, the Result is a made-up message and not   *)
(* {"output": stdout}.                                                     *)
(***************************************************************************)
C14_Original ==
    Imported =>
        /\ last.updates # <<RawOutput>>
        /\ last.updates[1].data.keys = <<KeyMessage>>

(***************************************************************************)
(* C14, amended: import is not treated like export: when its backend       *)
(* completed with exit status 0, the Result is {"output": stdout} as       *)
(* _run_cli_command returned it, and the screen shows it, stdout included, *)
(* after "SUCCESS:\n".                                                     *)
(***************************************************************************)
C14_Amended ==
    Imported =>
        /\ last.returned = <<RawOutput>>
        /\ last.updates = <<RawOutput>>
        /\ ShownTruncated(result_container[1].text, json_dumps(RawOutput.data, 0))

\* An import wrote a JSON document and ended with status 0; the Result holds
\* the document as text.
C14_Witness ==
    /\ Imported
    /\ last.calls[1].outcome.stdout = SampleEntities
    /\ last.updates[1].data.keys = <<KeyOutput>>
    /\ last.updates[1].data.items = <<JStr(SampleEntities)>>

\* The name of the handler that on_button_pressed and BINDINGS give an event.
HandlerName(e) ==
    CASE e = "btn-list" -> "action_list_entities"
      [] e = "btn-system" -> "action_system_menu"
      [] e = "btn-sys-health" -> "action_show_health"
      [] e = "btn-sys-reflect" -> "action_sys_reflect_form"
      [] e = "btn-submit-reflect" -> "handle_sys_reflect"
      [] e = "q" -> "action_quit"

\* An event is put on the queue and nothing else happens.
Queues ==
    /\ \E e \in LoopEvents : inbox' = Append(inbox, e)
    /\ UNCHANGED <<running, welcome_text, result_container, last, outstanding>>

\* The handler of the outstanding invocation ends: it alone has written.
Finishes ==
    /\ outstanding' = << >>
    /\ inbox' = inbox
    /\ last'.handler = HandlerName(outstanding[1].event)
    /\ Len(last'.calls) = 1

Overtakes == dispatch \/ enter_subprocess_run

QuitWaits == running /\ outstanding # << >> /\ inbox # << >> /\ Head(inbox) = "q"

\* C16 as stated: a quit that arrives while an invocation is outstanding can
\* be handled before the invocation's outcome is there.
C16_Original == QuitWaits => ENABLED Overtakes

\* C16, what the program does: while an invocation is outstanding no event is
\* taken from the queue, a quit included; the application is still running
\* when subprocess.run returns, and the handler's writes follow in the same
\* step of the loop, not as an event of their own.
C16_Blocked ==
    /\ [](outstanding # << >> => running /\ ~ENABLED Overtakes)
    /\ [][QuitWaits =>
            /\ Head(inbox') = "q"
            /\ Len(inbox') >= Len(inbox)
            /\ last'.handler # "action_quit"]_vars

\* q is pressed while system health runs for the list of entities.
C16_Witness == QuitWaits /\ outstanding[1].event = "btn-list" /\ inbox = <<"q">>

\* The submit or quick action of the event e has ended with one invocation,
\* which ended the way cond; the reflect form's submit has set its Result.
Ends(e, cond) ==
    /\ outstanding' = << >>
    /\ last'.handler = HandlerName(e)
    /\ Len(last'.calls) = 1
    /\ last'.calls[1].outcome.cond = cond
    /\ cond \in {"completed", "timed-out", "raised"}
    /\ e = "btn-submit-reflect" =>
          /\ last'.updates = last'.returned
          /\ result_container' = <<Static(ResultContent(last'.returned[1]), "result-text")>>

\* C18: an invocation that was started ends, and the loop does not wait
\* forever; the step that ends it is the end of its handler, in one of the
\* three conditions and in the one its process decided (timed out when the
\* process does not exit), and the reflect form's submit sets the Result of
\* that invocation in this step.
C18_Terminates ==
    /\ (outstanding # << >>) ~> (outstanding = << >>)
    /\ [][outstanding # << >> /\ outstanding' # outstanding =>
            Ends(outstanding[1].event, outstanding[1].cond)]_vars

\* The reflect form's submit waits for a process that is not going to exit.
C18_Witness ==
    /\ outstanding = <<[event |-> "btn-submit-reflect", cond |-> "timed-out"]>>
    /\ welcome_text = "Running Reflection..."
    /\ View = "reflect"

\* The last event was a submit or a quick action.
SubmitOrQuick == last.handler \in SubmitHandlers \cup QuickHandlers

\* The Result the last event owes to its one invocation: what
\* _run_cli_command returned, or the message export makes of a success.
Derived ==
    IF last.handler = "handle_export" /\ "success" \in last.returned[1].keys
    THEN ExportedMessage(ArgAfter(last.calls[1].cmd, <<"-o">>))
    ELSE last.returned[1]

\* The result area shows one Result, that one, and nothing from before: the
\* one Static of _update_result, or the lines of list entities.
OneResultShown ==
    /\ ~last.raised
    /\ running
    /\ IF last.handler = "action_list_entities"
       THEN /\ result_container # << >>
            /\ \A i \in DOMAIN result_container : result_container[i].w = "Static"
            /\ result_container[1].text[1] =
                  (IF "success" \in last.returned[1].keys THEN "Total Entities: " ELSE "Error: ")
       ELSE /\ last.updates = <<Derived>>
            /\ result_container = <<Static(ResultContent(Derived), "result-text")>>

\* A submit or quick action makes at most one invocation and none after it;
\* one that makes none was refused with a Failure.
OneAttempt ==
    /\ Len(last.calls) <= 1
    /\ Len(last.returned) = Len(last.calls)
    /\ last.calls = << >> => FailureShown

\* List entities got a success whose data is not a JSON object.
ListOfNoObject ==
    /\ last.handler = "action_list_entities"
    /\ "success" \in last.returned[1].keys
    /\ last.returned[1].data.t # "obj"

\* C17 as stated: every submit or quick action that passes validation makes
\* exactly one invocation, never a second one whatever the outcome, and then
\* shows exactly one Result, the one derived from that invocation, in the
\* place of whatever was there.
C17_Original ==
    SubmitOrQuick => OneAttempt /\ (last.calls # << >> => OneResultShown)

\* C17, what the program does: the same, except that list entities, given a
\* success whose data is no JSON object, ends in an uncaught exception with
\* the container emptied: no Result, and the application over.
C17_OneAttempt ==
    SubmitOrQuick =>
        /\ OneAttempt
        /\ last.calls # << >> =>
              IF ListOfNoObject
              THEN last.raised /\ ~running /\ result_container = << >>
              ELSE OneResultShown

\* List entities after a backend that printed a JSON array.
C17_Witness ==
    /\ ListOfNoObject
    /\ last.calls[1].outcome.cond = "completed"
    /\ last.calls[1].outcome.stdout = SampleList
    /\ last.raised
    /\ result_container = << >>

\* A flag and its value, and the pair of an optional field.
FlagPair(flag, value) == <<<<flag>>, value>>
OptionalPair(flag, value) == IF value # << >> THEN FlagPair(flag, value) ELSE << >>

\* The forms with structured output: path, required fields and optional
\* fields, each field with its flag, in the order of the flags.
Descriptors ==
    [handle_create_entity |->
        [path |-> <<"entity", "create">>,
         required |-> <<<<"-n", "input-name">>, <<"-t", "input-type">>>>,
         optional |-> <<<<"-m", "input-metadata">>>>],
     handle_search |->
        [path |-> <<"search", "query">>,
         required |-> <<<<"-q", "input-search-query">>>>,
         optional |-> <<<<"-l", "input-search-limit">>>>],
     handle_agentic_search |->
        [path |-> <<"search", "agentic">>,
         required |-> <<<<"-q", "input-search-query">>>>,
         optional |-> <<<<"-l", "input-search-limit">>>>],
     handle_graph_explore |->
        [path |-> <<"graph", "explore">>,
         required |-> <<<<"-s", "input-explore-start">>>>,
         optional |-> <<<<"-h", "input-explore-hops">>>>],
     handle_sys_reflect |->
        [path |-> <<"system", "reflect">>,
         required |-> << >>,
         optional |-> <<<<"-i", "input-reflect-id">>>>],
     handle_profile_update |->
        [path |-> <<"profile", "update">>,
         required |-> << >>,
         optional |-> <<<<"-n", "input-profile-name">>, <<"-t", "input-profile-type">>,
                        <<"-m", "input-profile-metadata">>>>],
     handle_profile_add_pref |->
        [path |-> <<"profile", "add-preference">>,
         required |-> <<<<"-t", "input-pref-text">>>>,
         optional |-> <<<<"-m", "input-pref-metadata">>>>]]

\* The quick actions: a path and no field.
QuickPaths ==
    [action_show_health |-> <<"system", "health">>,
     handle_sys_metrics |-> <<"system", "metrics">>,
     handle_graph_pagerank |-> <<"graph", "pagerank">>,
     handle_graph_communities |-> <<"graph", "communities">>,
     handle_graph_summarize |-> <<"graph", "summarize">>,
     handle_profile_show |-> <<"profile", "show">>,
     handle_profile_reset |-> <<"profile", "reset">>,
     action_list_entities |-> <<"system", "health">>]

\* The arguments of a path, one literal each.
Segments(path) == [i \in DOMAIN path |-> <<path[i]>>]

\* The pairs of a list of fields, in its order (a list has three at most).
Pairs(list, fields, optional) ==
    LET P(i) == IF i > Len(list) THEN << >>
                ELSE IF optional THEN OptionalPair(list[i][1], fields[list[i][2]])
                ELSE FlagPair(list[i][1], fields[list[i][2]])
    IN  P(1) \o P(2) \o P(3)

\* The argument list the table gives for a form and the values of its fields.
Built(d, fields) ==
    Segments(d.path) \o Pairs(d.required, fields, FALSE) \o Pairs(d.optional, fields, TRUE)
        \o <<<<"-f">>, <<"json">>>>

\* The form passes validation: no required field is empty, and profile
\* update has a field that is not.
Valid(h, fields) ==
    /\ \A i \in DOMAIN Descriptors[h].required : fields[Descriptors[h].required[i][2]] # << >>
    /\ h = "handle_profile_update" =>
          \E i \in DOMAIN Descriptors[h].optional : fields[Descriptors[h].optional[i][2]] # << >>

\* C19: a submit of a form with structured output runs the backend exactly
\* when the fields pass validation, and then with the argument list that the
\* form's row gives for the values the fields have now: path, required flags
\* with their values, the pair of each optional field that is not empty, in
\* the row's order, and "-f", "json" at the end; a quick action runs its
\* path followed by "-f", "json".  Nothing else of the state enters.
C19_Arguments ==
    /\ \A h \in DOMAIN Descriptors :
          last.handler = h =>
              IF Valid(h, last.fields)
              THEN /\ Len(last.calls) = 1
                   /\ last.calls[1].use_json_format
                   /\ last.calls[1].cmd = Built(Descriptors[h], last.fields)
              ELSE last.calls = << >>
    /\ \A h \in DOMAIN QuickPaths :
          last.handler = h =>
              /\ Len(last.calls) = 1
              /\ last.calls[1].use_json_format
              /\ last.calls[1].cmd = Segments(QuickPaths[h]) \o <<<<"-f">>, <<"json">>>>

\* Profile update with the name empty, a type and a metadata text.
C19_Witness ==
    /\ last.handler = "handle_profile_update"
    /\ last.fields["input-profile-name"] = << >>
    /\ Len(last.calls) = 1
    /\ last.calls[1].cmd =
          <<<<"profile">>, <<"update">>, <<"-t">>, <<"a">>, <<"-m">>, <<"a", "a">>,
            <<"-f">>, <<"json">>>>

\* The places of the flag in an argument list.
Places(cmd, flag) == {k \in DOMAIN cmd : cmd[k] = flag}

\* "export.<fmt>" for the second path segment of an export.
ExportDefaults ==
    [json |-> <<"e", "x", "p", "o", "r", "t", ".", "j", "s", "o", "n">>,
     markdown |-> <<"e", "x", "p", "o", "r", "t", ".", "m", "a", "r", "k", "d", "o", "w", "n">>,
     obsidian |-> <<"e", "x", "p", "o", "r", "t", ".", "o", "b", "s", "i", "d", "i", "a", "n">>]

\* C20: an import that runs has exactly one -f, the last but one argument,
\* followed by the entered format, or by "cozo" when the format field is
\* empty; an export of json, markdown or obsidian has exactly one -o,
\* followed by the entered path, or by "export.<fmt>" when the path field is
\* empty, and no -f; neither is asked for JSON, so no "-f", "json" is added.
C20_Defaults ==
    /\ (last.handler = "handle_import" /\ last.calls # << >>) =>
          LET cmd == last.calls[1].cmd
              format_type == last.fields["input-import-format"]
          IN  /\ Places(cmd, <<"-f">>) = {Len(cmd) - 1}
              /\ cmd[Len(cmd)] = (IF format_type # << >> THEN format_type ELSE <<"cozo">>)
              /\ cmd = <<<<"import">>, <<"file">>, <<"-i">>, last.fields["input-import-file"],
                         <<"-f">>, cmd[Len(cmd)]>>
              /\ ~last.calls[1].use_json_format
    /\ last.handler = "handle_export" =>
          /\ Len(last.calls) = 1
          /\ LET cmd == last.calls[1].cmd
                 file_path == last.fields["input-export-file"]
             IN  /\ cmd[1] = <<"export">>
                 /\ \E fmt \in DOMAIN ExportDefaults :
                       /\ cmd[2] = <<fmt>>
                       /\ Places(cmd, <<"-o">>) = {3}
                       /\ cmd[4] = (IF file_path # << >> THEN file_path ELSE ExportDefaults[fmt])
                 /\ Places(cmd, <<"-f">>) = { }
                 /\ Places(cmd, <<"json">>) \subseteq {2}
                 /\ ~last.calls[1].use_json_format

\* An import with the format field left empty.
C20_Witness ==
    /\ last.handler = "handle_import"
    /\ last.fields["input-import-format"] = << >>
    /\ Len(last.calls) = 1
    /\ last.calls[1].cmd =
          <<<<"import">>, <<"file">>, <<"-i">>, <<"a">>, <<"-f">>, <<"cozo">>>>

\* The last event, a quick action, made one invocation, of its row's path
\* with "-f", "json", asked for JSON.
QuickInvoked(h) ==
    /\ Len(last.calls) = 1
    /\ last.calls[1].use_json_format
    /\ last.calls[1].cmd = Segments(QuickPaths[h]) \o <<<<"-f">>, <<"json">>>>
    /\ Len(last.returned) = 1
    /\ last.returned[1] = _run_cli_command(Segments(QuickPaths[h]), TRUE, last.calls[1].outcome)

\* The Result of the one invocation is set and rendered as a submit's is.
ShownAsSubmit ==
    /\ ~last.raised
    /\ running
    /\ last.updates = last.returned
    /\ result_container = <<Static(ResultContent(last.returned[1]), "result-text")>>

\* What list entities leaves on the screen: for a Failure one line, "Error: "
\* and the message; for a success with an object the three totals and a
\* hint; for a success with anything else nothing, the handler having
\* raised.
ShownAsTotals ==
    /\ last.updates = << >>
    /\ IF "error" \in last.returned[1].keys
       THEN /\ ~last.raised
            /\ running
            /\ result_container = <<Static(<<"Error: ">> \o last.returned[1].error, "")>>
       ELSE IF last.returned[1].data.t = "obj"
       THEN /\ ~last.raised
            /\ running
            /\ Len(result_container) = 4
            /\ \A i \in 1..4 : result_container[i].w = "Static" /\ result_container[i].id = ""
            /\ result_container[1].text[1] = "Total Entities: "
            /\ result_container[2].text[1] = "Total Observations: "
            /\ result_container[3].text[1] = "Total Relationships: "
       ELSE /\ last.raised
            /\ ~running
            /\ result_container = << >>

\* C21 as stated: every quick action, list entities among them, makes one
\* invocation of its own fixed argument list, asked for JSON, whatever the
\* forms hold, and sets and renders the Result as a submit does; list
\* entities runs a path of its own, not that of another action.
C21_Original ==
    /\ \A h \in QuickHandlers : last.handler = h => QuickInvoked(h) /\ ShownAsSubmit
    /\ last.handler = "action_list_entities" =>
          \A h \in QuickHandlers \ {"action_list_entities"} :
              last.calls[1].cmd # Segments(QuickPaths[h]) \o <<<<"-f">>, <<"json">>>>

\* C21, what the program does: the seven other quick actions as stated;
\* list entities runs "system health", the path of the health action, gives
\* _update_result nothing and shows totals of its own, or one line for a
\* Failure, or ends in an exception.
C21_Quick ==
    \A h \in QuickHandlers :
        last.handler = h =>
            /\ QuickInvoked(h)
            /\ IF h = "action_list_entities" THEN ShownAsTotals ELSE ShownAsSubmit

\* List entities pressed on a form that holds a value, the backend printing
\* a JSON array: the health path was run and the handler raised.
C21_Witness ==
    /\ last.handler = "action_list_entities"
    /\ last.before = "search"
    /\ last.calls[1].cmd = <<<<"system">>, <<"health">>, <<"-f">>, <<"json">>>>
    /\ last.returned[1] = SuccessDict(JArr(<<JNum(1), JStr(<<"a">>)>>))
    /\ ~running

\* C22 as stated: the refresh key makes exactly one invocation, of the
\* health path, and the result area then shows the Result of that
\* invocation.
C22_Original ==
    last.handler = "action_refresh" =>
        /\ Len(last.calls) = 1
        /\ last.calls[1].cmd = <<<<"system">>, <<"health">>, <<"-f">>, <<"json">>>>
        /\ last.updates = last.returned
        /\ result_container = <<Static(ResultContent(last.returned[1]), "result-text")>>

\* C22, what the program does: the refresh key sets the title to
\* "Refreshed", makes no invocation, gives _update_result nothing and leaves
\* the result area, whatever it shows, as it is.
C22_TitleOnly ==
    /\ [](last.handler = "action_refresh" =>
            /\ last.calls = << >>
            /\ last.returned = << >>
            /\ last.updates = << >>
            /\ welcome_text = "Refreshed"
            /\ View = last.before)
    /\ [][last'.handler = "action_refresh" =>
            /\ result_container' = result_container
            /\ running' = running]_vars

\* The refresh key pressed while the Failure of an earlier metrics action is
\* on the screen: it is still there.
C22_Witness ==
    /\ last.handler = "action_refresh"
    /\ last.before = "result"
    /\ welcome_text = "Refreshed"
    /\ result_container = <<Static(<<"ERROR:\n", "Command timed out">>, "result-text")>>

\* A result dict is a Failure or a success, one of the two: the key "error"
\* alone, or the keys "success" and "data" with success true.
OneVariant(d) ==
    \/ d.keys = {"error"}
    \/ d.keys = {"success", "data"} /\ d.success

\* C23: every dict _run_cli_command returned and every dict given to
\* _update_result is a Failure or a success, never both and never neither;
\* so what _update_result mounted starts with "ERROR:\n" or "SUCCESS:\n",
\* and is never the print of the dict itself.
C23_TwoVariants ==
    /\ \A i \in DOMAIN last.returned : OneVariant(last.returned[i])
    /\ \A i \in DOMAIN last.updates : OneVariant(last.updates[i])
    /\ last.updates # << >> =>
          /\ Len(result_container) = 1
          /\ result_container[1].text[1] \in {"ERROR:\n", "SUCCESS:\n"}
          /\ result_container[1].text # json_dumps(DictAsJson(last.updates[1]), 0)

\* An export whose process could not be started: the Failure of
\* _run_cli_command went through handle_export to the renderer.
C23_Witness ==
    /\ last.handler = "handle_export"
    /\ last.calls[1].outcome.cond = "raised"
    /\ last.returned[1].keys = {"error"}
    /\ last.updates = last.returned
    /\ result_container[1].text[1] = "ERROR:\n"

\* The eight entries of the sidebar: button and handler.
MainMenu ==
    <<[button |-> "btn-system", handler |-> "action_system_menu"],
      [button |-> "btn-profile", handler |-> "action_profile_menu"],
      [button |-> "btn-create-entity", handler |-> "action_create_entity"],
      [button |-> "btn-search", handler |-> "action_search"],
      [button |-> "btn-graph", handler |-> "action_graph_menu"],
      [button |-> "btn-export", handler |-> "action_export_menu"],
      [button |-> "btn-import", handler |-> "action_import_menu"],
      [button |-> "btn-list", handler |-> "action_list_entities"]>>

\* The press of the k-th entry, as an action.
Enter(k) ==
    CASE k = 1 -> Pressed("btn-system") /\ action_system_menu
      [] k = 2 -> Pressed("btn-profile") /\ action_profile_menu
      [] k = 3 -> Pressed("btn-create-entity") /\ action_create_entity
      [] k = 4 -> Pressed("btn-search") /\ action_search
      [] k = 5 -> Pressed("btn-graph") /\ action_graph_menu
      [] k = 6 -> Pressed("btn-export") /\ action_export_menu
      [] k = 7 -> Pressed("btn-import") /\ action_import_menu
      [] k = 8 -> Pressed("btn-list") /\ action_list_entities

\* The Inputs and Buttons of each menu and form.
ViewWidgets ==
    ("system-menu" :> {"btn-sys-health", "btn-sys-metrics", "btn-sys-reflect"})
    @@ ("profile-menu" :> {"btn-profile-show", "btn-profile-update", "btn-profile-add-pref",
                           "btn-profile-reset"})
    @@ ("graph-menu" :> {"btn-graph-pagerank", "btn-graph-communities", "btn-graph-summarize",
                         "btn-graph-explore"})
    @@ ("create-entity" :> {"input-name", "input-type", "input-metadata", "btn-submit-entity"})
    @@ ("search" :> {"input-search-query", "input-search-limit", "btn-submit-search",
                     "btn-submit-agentic"})
    @@ ("graph-explore" :> {"input-explore-start", "input-explore-hops", "btn-submit-explore"})
    @@ ("import" :> {"input-import-file", "input-import-format", "btn-submit-import"})
    @@ ("export" :> {"input-export-file", "btn-export-json", "btn-export-md",
                     "btn-export-obsidian"})
    @@ ("profile-update" :> {"input-profile-name", "input-profile-type",
                             "input-profile-metadata", "btn-submit-profile-update"})
    @@ ("add-preference" :> {"input-pref-text", "input-pref-metadata",
                             "btn-submit-profile-pref"})
    @@ ("reflect" :> {"input-reflect-id", "btn-submit-reflect"})

\* The form of each submit handler.
SubmitForm ==
    [handle_create_entity |-> "create-entity", handle_search |-> "search",
     handle_agentic_search |-> "search", handle_import |-> "import",
     handle_graph_explore |-> "graph-explore", handle_sys_reflect |-> "reflect",
     handle_profile_update |-> "profile-update", handle_profile_add_pref |-> "add-preference",
     handle_export |-> "export"]

\* The Inputs and Buttons in the result area, and the menus and forms that
\* have one of theirs among them.
Interactive ==
    {result_container[i].id : i \in Children("Input") \cup Children("Button")}
Current == {v \in DOMAIN ViewWidgets : ViewWidgets[v] \cap Interactive # { }}

\* One view is on the screen: one menu or form, whole and with the widgets
\* of no other, each once; or texts only (the welcome text, a result, the
\* totals, the help).
OneView ==
    /\ Cardinality(Children("Input") \cup Children("Button")) = Cardinality(Interactive)
    /\ \/ Current = { } /\ Interactive = { } /\ result_container # << >>
       \/ \E v \in DOMAIN ViewWidgets : Current = {v} /\ Interactive = ViewWidgets[v] /\ View = v

====
